---- MODULE Spec2Model ----
(***************************************************************************)
(* A model of the core of diffsol: the Newton convergence test             *)
(* (src/src/nonlinear_solver/mod.rs), the Closure operator's statistics    *)
(* (src/src/op/closure.rs, src/src/op/mod.rs), parameter rebinding of an   *)
(* OdeSolverProblem (src/src/ode_solver/problem.rs) and the construction   *)
(* of dense matrices from triplets (src/src/matrix/*.rs).                  *)
(*                                                                         *)
(* Scalars are IEEE-754 binary64 numbers (f64) and every operation of the  *)
(* code on them is rounded as the hardware rounds it.  Vectors have one     *)
(* component, so the 2-norm of a vector is the root of the square of its   *)
(* component.                                                              *)
(***************************************************************************)
EXTENDS Integers, Sequences, FiniteSets, TLC

VARIABLES
    \* ---- struct Convergence (nonlinear_solver/mod.rs:50-58)
    rtol, atol, tol, max_iter, iter, scale, old_norm,
    \* what the last call of check_new_iteration returned (or how it ended)
    status,
    \* observation of the last call: its argument and the fields it read
    call,
    \* history since construction / since the last reset
    reset_called, checks_since_reset, all_continue,
    \* observation of the last call of reset, kept until a second check
    \* follows it: its argument, and whether an old_norm was recorded when it
    \* was made
    reset_call,
    \* ---- struct Closure (op/closure.rs:11-26): nstates, nout, nparams
    closure,
    \* its fields statistics, coloring and sparsity
    statistics, coloring, sparsity,
    \* how often the closures func and jacobian_action were really invoked,
    \* how often jacobian_inplace was entered, how many solves were run
    evals,
    \* the last operation on the Closure and the statistics before it
    op_last,
    \* ---- OdeSolverProblem (ode_solver/problem.rs): who holds the Rc<Eqn>,
    \* the parameters of the equations, the last call of set_params
    holders, eqn_p, set_params_call,
    \* ---- try_from_triplets: the arguments and the outcome, and the outcome
    \* of rebuilding the matrix from the list of its own entries
    tri_in, tri_out, tri_round,
    \* ---- Matrix::gemv: the arguments and what each backend left in self,
    \* x and y
    gemv_in, gemv_out,
    \* ---- OdeSolverMethod::solve / make_consistent_and_solve
    \* (ode_solver/method.rs): the arguments of the call, the position of the
    \* call, the solver's problem and state, the root solver's call counters,
    \* the calls made on the solver, the call of interpolate, what the call
    \* returned, and the last call of OdeSolverState::new_consistent
    ode_in, ode_pc, solver, root, ode_calls, interp, ode_ret, nc_out,
    \* ---- SundialsMatrix (matrix/sundials.rs:25-28): the live wrappers with
    \* their fields sm and owned, and for every native SUNMatrix handle who
    \* made it and how often SUNMatDestroy was called on it
    wrappers, handles,
    \* ---- Jacobian / matrix materialization (op/mod.rs:104-114, 149-159,
    \* op/closure.rs:99-106): the operator, and the last materialization
    jac_op, jac_run,
    \* ---- OdeSolverSolution (ode_solver/problem.rs:58-60): the points, and
    \* the last call of push with the points before it
    solution_points, push_last,
    \* ---- what was last read from a Closure through the impls for &C, next
    \* to what the Closure itself returned
    ref_view,
    \* ---- what the last allocating method (call, jac_mul, jacobian, matrix)
    \* of the operator jac_op came to
    alloc_out

vars == <<rtol, atol, tol, max_iter, iter, scale, old_norm, status, call,
          reset_called, checks_since_reset, all_continue, reset_call,
          closure, statistics, coloring, sparsity, evals, op_last,
          holders, eqn_p, set_params_call, tri_in, tri_out, tri_round,
          gemv_in, gemv_out,
          ode_in, ode_pc, solver, root, ode_calls, interp, ode_ret, nc_out,
          wrappers, handles, jac_op, jac_run,
          solution_points, push_last, ref_view, alloc_out>>

convVars == <<rtol, atol, tol, max_iter, iter, scale, old_norm, status, call,
              reset_called, checks_since_reset, all_continue, reset_call>>
opVars == <<closure, statistics, coloring, sparsity, evals, op_last>>
probVars == <<holders, eqn_p, set_params_call>>
triVars == <<tri_in, tri_out, tri_round>>
gemvVars == <<gemv_in, gemv_out>>
\* the components added after the first four
odeVars == <<ode_in, ode_pc, solver, root, ode_calls, interp, ode_ret, nc_out>>
sunVars == <<wrappers, handles>>
jacVars == <<jac_op, jac_run>>
solVars == <<solution_points, push_last>>
refVars == <<ref_view>>
allocVars == <<alloc_out>>
restVars == <<gemvVars, odeVars, sunVars, jacVars, solVars, refVars, allocVars>>
\* the four first components
firstVars == <<convVars, opVars, probVars, triVars>>
\* what the actions of one of the later components leave alone
gemvOthers == <<firstVars, odeVars, sunVars, jacVars, solVars, refVars, allocVars>>
odeOthers == <<firstVars, gemvVars, sunVars, jacVars, solVars, refVars, allocVars>>
sunOthers == <<firstVars, gemvVars, odeVars, jacVars, solVars, refVars, allocVars>>
jacOthers == <<firstVars, gemvVars, odeVars, sunVars, solVars, refVars, allocVars>>
solOthers == <<firstVars, gemvVars, odeVars, sunVars, jacVars, refVars, allocVars>>
refOthers == <<convVars, probVars, triVars, gemvVars, odeVars, sunVars, jacVars, solVars,
               allocVars>>
allocOthers == <<firstVars, gemvVars, odeVars, sunVars, jacVars, solVars, refVars>>

(***************************************************************************)
(* Bounds of the model.                                                    *)
(***************************************************************************)
\* dy ranges over -MinDy/100 .. MaxDy/100
MinDy == 1
MaxDy == 6
\* the reference iterate y of reset ranges over -MaxY .. MaxY
MaxY == 1
\* max_iter ranges over 0 .. MaxMaxIter
MaxMaxIter == 3
\* at most MaxChecks calls of check_new_iteration between two resets
MaxChecks == 3

(***************************************************************************)
(* Option<T>: None is the empty sequence, Some(v) the sequence <<v>>.      *)
(***************************************************************************)
None == <<>>
Some(v) == <<v>>
IsNone(o) == Len(o) = 0
IsSome(o) == Len(o) = 1
Unwrap(o) == o[1]

(***************************************************************************)
(* IEEE-754 binary64 (f64), the scalar type T of the solver, with          *)
(* round-to-nearest-even.  A natural number is a sequence of digits in     *)
(* base 2^14, least significant first; a float is [cls, s, e, m] with the  *)
(* value (-1)^s * m * 2^e, where m has 53 bits (fewer for a subnormal      *)
(* number, whose e is -1074).  The operations are functions, so that an    *)
(* operand is evaluated once, before the operation is applied to it.       *)
(***************************************************************************)
Base == 2^14
\* the natural numbers as sequences of digits
Digits == Seq(Nat)
\* the floats
F64Set == [cls : {"num", "inf", "nan"}, s : {0, 1}, e : Int, m : Digits]

Digit(a, i) == IF i >= 1 /\ i <= Len(a) THEN a[i] ELSE 0
\* the function f on 1..n as a tuple
AsSeq(f) == f \o <<>>
BigZero(n) == AsSeq([i \in 1..n |-> 0])
BigIsZero(a) == \A i \in 1..Len(a) : a[i] = 0
BigPad(a, n) == AsSeq([i \in 1..n |-> Digit(a, i)])
\* the number of bits of a digit
DigitBits(x) == CHOOSE k \in 0..14 : x < 2^k /\ (k = 0 \/ x >= 2^(k - 1))
\* the number of bits of a
BitLength[a \in Digits] ==
    LET used == {i \in 1..Len(a) : a[i] # 0}
        t == CHOOSE i \in used : \A j \in used : j <= i
    IN  IF used = {} THEN 0 ELSE 14 * (t - 1) + DigitBits(a[t])
\* a \div 2^k in n digits
ShiftRight[a \in Digits, k \in Nat, n \in Nat] ==
    LET q == k \div 14
        r == k % 14
    IN  AsSeq([i \in 1..n |->
            (Digit(a, i + q) \div 2^r) + (Digit(a, i + q + 1) % 2^r) * 2^(14 - r)])
\* a % 2^k # 0
LowBitsNonZero(a, k) ==
    \/ \E i \in 1..(k \div 14) : Digit(a, i) # 0
    \/ Digit(a, (k \div 14) + 1) % 2^(k % 14) # 0
\* bit k of a (bit 0 is the lowest)
BitAt(a, k) == (Digit(a, (k \div 14) + 1) \div 2^(k % 14)) % 2
\* a * 2^k in n digits
ShiftLeft[a \in Digits, k \in Nat, n \in Nat] ==
    LET q == k \div 14
        r == k % 14
    IN  AsSeq([i \in 1..n |->
            (Digit(a, i - q) % 2^(14 - r)) * 2^r + (Digit(a, i - q - 1) \div 2^(14 - r))])
\* -1, 0, 1 as a < b, a = b, a > b (digits beyond the end are zero)
BigCmp[a \in Digits, b \in Digits] ==
    LET differ == {i \in 1..(IF Len(a) > Len(b) THEN Len(a) ELSE Len(b)) :
                      Digit(a, i) # Digit(b, i)}
        t == CHOOSE i \in differ : \A j \in differ : j <= i
    IN  IF differ = {} THEN 0 ELSE IF Digit(a, t) < Digit(b, t) THEN -1 ELSE 1
\* a + b in n <= 9 digits
BigAdd[a \in Digits, b \in Digits, n \in Nat] ==
    LET s1 == Digit(a, 1) + Digit(b, 1)
        s2 == Digit(a, 2) + Digit(b, 2) + s1 \div Base
        s3 == Digit(a, 3) + Digit(b, 3) + s2 \div Base
        s4 == Digit(a, 4) + Digit(b, 4) + s3 \div Base
        s5 == Digit(a, 5) + Digit(b, 5) + s4 \div Base
        s6 == Digit(a, 6) + Digit(b, 6) + s5 \div Base
        s7 == Digit(a, 7) + Digit(b, 7) + s6 \div Base
        s8 == Digit(a, 8) + Digit(b, 8) + s7 \div Base
        s9 == Digit(a, 9) + Digit(b, 9) + s8 \div Base
    IN  SubSeq(<<s1 % Base, s2 % Base, s3 % Base, s4 % Base, s5 % Base,
                 s6 % Base, s7 % Base, s8 % Base, s9 % Base>>, 1, n)
\* a - b for a >= b of up to eight digits, in as many digits as a
BigSub[a \in Digits, b \in Digits] ==
    LET t1 == Digit(a, 1) - Digit(b, 1)
        t2 == Digit(a, 2) - Digit(b, 2) + t1 \div Base
        t3 == Digit(a, 3) - Digit(b, 3) + t2 \div Base
        t4 == Digit(a, 4) - Digit(b, 4) + t3 \div Base
        t5 == Digit(a, 5) - Digit(b, 5) + t4 \div Base
        t6 == Digit(a, 6) - Digit(b, 6) + t5 \div Base
        t7 == Digit(a, 7) - Digit(b, 7) + t6 \div Base
        t8 == Digit(a, 8) - Digit(b, 8) + t7 \div Base
    IN  SubSeq(<<t1 % Base, t2 % Base, t3 % Base, t4 % Base,
                 t5 % Base, t6 % Base, t7 % Base, t8 % Base>>, 1, Len(a))
\* a * b for four digits each, in eight digits
BigMul[a \in Digits, b \in Digits] ==
    LET c1 == a[1] * b[1]
        c2 == a[1] * b[2] + a[2] * b[1] + c1 \div Base
        c3 == a[1] * b[3] + a[2] * b[2] + a[3] * b[1] + c2 \div Base
        c4 == a[1] * b[4] + a[2] * b[3] + a[3] * b[2] + a[4] * b[1] + c3 \div Base
        c5 == a[2] * b[4] + a[3] * b[3] + a[4] * b[2] + c4 \div Base
        c6 == a[3] * b[4] + a[4] * b[3] + c5 \div Base
        c7 == a[4] * b[4] + c6 \div Base
    IN  <<c1 % Base, c2 % Base, c3 % Base, c4 % Base,
          c5 % Base, c6 % Base, c7 % Base, c7 \div Base>>
\* v * d for one digit d and four digits v, in five digits
BigMulDigit[v \in Digits, d \in Nat] ==
    LET p1 == v[1] * d
        p2 == v[2] * d + p1 \div Base
        p3 == v[3] * d + p2 \div Base
        p4 == v[4] * d + p3 \div Base
    IN  <<p1 % Base, p2 % Base, p3 % Base, p4 % Base, p4 \div Base>>
\* an estimate of w \div v from the two top digits of w and the top digit of
\* v, lowered while the next digits show that it is too large; it is the
\* quotient or one more
Lowered[w \in Digits, v \in Digits, est \in Nat] ==
    LET rest == w[5] * Base + w[4] - est * v[4]
    IN  IF rest < Base /\ est * v[3] > rest * Base + w[3] THEN Lowered[w, v, est - 1] ELSE est
\* the digits q of a quotient found so far and what is left of the dividend
DivStates == [q : Digits, r : Digits]
\* the digit est of the quotient, or est - 1 if est * v is more than w, put
\* before the digits q, and what that leaves of w
Subtracted[w \in Digits, v \in Digits, q \in Digits, est \in Nat, p \in Digits] ==
    IF BigCmp[p, w] <= 0 THEN [q |-> <<est>> \o q, r |-> SubSeq(BigSub[w, p], 1, 4)]
    ELSE [q |-> <<est - 1>> \o q, r |-> SubSeq(BigSub[w, BigSub[p, v \o <<0>>]], 1, 4)]
\* the digit est of the quotient is tried
Tried[w \in Digits, v \in Digits, q \in Digits, est \in Nat] ==
    Subtracted[w, v, q, est, BigMulDigit[v, est]]
\* one step of the long division by the four digits v, whose top digit is at
\* least Base / 2: s.r < v is what is left of the dividend, s.q are the
\* digits of the quotient found so far
DivStep[s \in DivStates, v \in Digits] ==
    LET w == <<0>> \o s.r
        top == (w[5] * Base + w[4]) \div v[4]
    IN  Tried[w, v, s.q, Lowered[w, v, IF top >= Base THEN Base - 1 ELSE top]]
\* a \div b and the rest, for four digits each with top digits of at least
\* Base / 2, the quotient to four digits after the point
BigDiv[a \in Digits, b \in Digits] ==
    LET s0 == IF BigCmp[a, b] >= 0 THEN [q |-> <<1>>, r |-> BigSub[a, b]]
              ELSE [q |-> <<0>>, r |-> a]
    IN  DivStep[DivStep[DivStep[DivStep[s0, b], b], b], b]
\* r with bit k set if the square of that is at most n, else r
SqrtBit[n \in Digits, r \in Digits, k \in Nat] ==
    LET c == [r EXCEPT ![(k \div 14) + 1] = @ + 2^(k % 14)]
    IN  IF BigCmp[BigMul[c, c], n] <= 0 THEN c ELSE r
\* the largest r2 with r2 * r2 <= n among the numbers that agree with r above
\* bit hi and are zero below bit lo: the bits hi .. lo are found from the top,
\* the upper half of them first
SqrtBits[n \in Digits, r \in Digits, hi \in Nat, lo \in Nat] ==
    IF hi = lo THEN SqrtBit[n, r, hi]
    ELSE SqrtBits[n, SqrtBits[n, r, hi, (hi + lo + 1) \div 2], (hi + lo + 1) \div 2 - 1, lo]

F64NaN == [cls |-> "nan", s |-> 0, e |-> 0, m |-> BigZero(4)]
F64Inf(s) == [cls |-> "inf", s |-> s, e |-> 0, m |-> BigZero(4)]
F64Zero(s) == [cls |-> "num", s |-> s, e |-> -1074, m |-> BigZero(4)]
F64IsNaN(a) == a.cls = "nan"
F64IsInf(a) == a.cls = "inf"
F64IsZero(a) == a.cls = "num" /\ BigIsZero(a.m)
\* a finite float that is not zero
F64IsNormal(a) == a.cls = "num" /\ ~BigIsZero(a.m)
\* the float (-1)^s * m * 2^e, for m of at most 53 bits
Finite[s \in {0, 1}, e \in Int, m \in Digits] ==
    IF e > 971 THEN F64Inf(s)
    ELSE IF BigIsZero(m) THEN F64Zero(s)
    ELSE [cls |-> "num", s |-> s, e |-> e, m |-> m]
\* the same for m that rounding may have carried to 54 bits
Carried[s \in {0, 1}, e \in Int, m \in Digits] ==
    IF BitLength[m] = 54 THEN Finite[s, e + 1, ShiftRight[m, 1, 4]] ELSE Finite[s, e, m]
\* the bits of n dropped by a shift of sh make n round up: kept is what is
\* left of n, sticky says that more lies below n
RoundsUp(n, sh, kept, sticky) ==
    /\ BitAt(n, sh - 1) = 1
    /\ \/ sticky
       \/ LowBitsNonZero(n, sh - 1)
       \/ kept[1] % 2 = 1
\* sh > 0 bits of n are dropped
Rounded[s \in {0, 1}, e \in Int, n \in Digits, sticky \in BOOLEAN, sh \in Nat, kept \in Digits] ==
    Carried[s, e + sh, IF RoundsUp(n, sh, kept, sticky) THEN BigAdd[kept, <<1>>, 4] ELSE kept]
\* n of len > 0 bits is brought to 53 bits, or to fewer at the exponent -1074
Placed[s \in {0, 1}, e \in Int, n \in Digits, sticky \in BOOLEAN, sh \in Int] ==
    IF sh <= 0 THEN [cls |-> "num", s |-> s, e |-> e + sh, m |-> ShiftLeft[n, -sh, 4]]
    ELSE Rounded[s, e, n, sticky, sh, ShiftRight[n, sh, 4]]
Sized[s \in {0, 1}, e \in Int, n \in Digits, sticky \in BOOLEAN, len \in Nat] ==
    IF len = 0 THEN F64Zero(s)
    ELSE Placed[s, e, n, sticky, IF e + len - 53 < -1074 THEN -1074 - e ELSE len - 53]
\* the float nearest to (-1)^s * n * 2^e (ties to even); sticky says that the
\* exact value lies above n * 2^e by less than 2^e
RoundPack[s \in {0, 1}, e \in Int, n \in Digits, sticky \in BOOLEAN] ==
    Sized[s, e, n, sticky, BitLength[n]]
\* an integer of fewer than 2^31 in absolute value
F64FromInt(x) ==
    LET a == IF x < 0 THEN -x ELSE x
    IN  RoundPack[IF x < 0 THEN 1 ELSE 0, 0,
                  <<a % Base, (a \div Base) % Base, a \div (Base * Base), 0>>, FALSE]
F64Neg[a \in F64Set] == IF F64IsNaN(a) THEN a ELSE [a EXCEPT !.s = 1 - a.s]
F64Abs[a \in F64Set] == IF F64IsNaN(a) THEN a ELSE [a EXCEPT !.s = 0]
SignXor(a, b) == IF a.s = b.s THEN 0 ELSE 1
F64Mul[a \in F64Set, b \in F64Set] ==
    IF F64IsNormal(a) /\ F64IsNormal(b)
    THEN RoundPack[SignXor(a, b), a.e + b.e, BigMul[a.m, b.m], FALSE]
    ELSE IF F64IsNaN(a) \/ F64IsNaN(b) THEN F64NaN
    ELSE IF F64IsInf(a) \/ F64IsInf(b)
         THEN IF F64IsZero(a) \/ F64IsZero(b) THEN F64NaN ELSE F64Inf(SignXor(a, b))
    ELSE F64Zero(SignXor(a, b))
\* the quotient dm.q, with the rest dm.r, at the exponent e
Packed[s \in {0, 1}, e \in Int, dm \in DivStates] ==
    RoundPack[s, e, dm.q, ~BigIsZero(dm.r)]
\* a / b with the mantissas shifted by ta and tb to 56 bits
Divided[a \in F64Set, b \in F64Set, ta \in Nat, tb \in Nat] ==
    Packed[SignXor(a, b), (a.e - ta) - (b.e - tb) - 56,
           BigDiv[ShiftLeft[a.m, ta, 4], ShiftLeft[b.m, tb, 4]]]
F64Div[a \in F64Set, b \in F64Set] ==
    IF F64IsNormal(a) /\ F64IsNormal(b)
    THEN Divided[a, b, 56 - BitLength[a.m], 56 - BitLength[b.m]]
    ELSE IF F64IsNaN(a) \/ F64IsNaN(b) THEN F64NaN
    ELSE IF F64IsInf(a) THEN IF F64IsInf(b) THEN F64NaN ELSE F64Inf(SignXor(a, b))
    ELSE IF F64IsInf(b) THEN F64Zero(SignXor(a, b))
    ELSE IF F64IsZero(b) THEN IF F64IsZero(a) THEN F64NaN ELSE F64Inf(SignXor(a, b))
    ELSE F64Zero(SignXor(a, b))
\* the sum of hi and lo, for h = hi.m at the exponent of lo and c as h is
\* less than, equal to or more than lo.m
Near[hi \in F64Set, lo \in F64Set, h \in Digits, c \in {-1, 0, 1}] ==
    RoundPack[IF hi.s = lo.s \/ c > 0 THEN hi.s ELSE IF c = 0 THEN 0 ELSE lo.s,
              lo.e,
              IF hi.s = lo.s THEN BigAdd[h, lo.m, 9]
              ELSE IF c >= 0 THEN BigSub[h, lo.m]
              ELSE BigSub[BigPad(lo.m, 8), h],
              FALSE]
Aligned[hi \in F64Set, lo \in F64Set, h \in Digits] == Near[hi, lo, h, BigCmp[h, lo.m]]
\* the sum of two finite floats that are not zero, hi.e >= lo.e
AddAligned[hi \in F64Set, lo \in F64Set] ==
    IF hi.e - lo.e > 58
    \* lo is below the rounding bit of hi: all it does is make the sum inexact
    THEN RoundPack[hi.s, hi.e - 2,
                   IF hi.s = lo.s THEN ShiftLeft[hi.m, 2, 5]
                   ELSE BigSub[ShiftLeft[hi.m, 2, 5], <<1>>],
                   TRUE]
    ELSE Aligned[hi, lo, ShiftLeft[hi.m, hi.e - lo.e, 8]]
F64Add[a \in F64Set, b \in F64Set] ==
    IF F64IsNormal(a) /\ F64IsNormal(b)
    THEN IF a.e >= b.e THEN AddAligned[a, b] ELSE AddAligned[b, a]
    ELSE IF F64IsNaN(a) \/ F64IsNaN(b) THEN F64NaN
    ELSE IF F64IsInf(a) THEN IF F64IsInf(b) /\ a.s # b.s THEN F64NaN ELSE a
    ELSE IF F64IsInf(b) THEN b
    ELSE IF F64IsZero(a) THEN IF F64IsZero(b) THEN F64Zero(IF a.s = 1 /\ b.s = 1 THEN 1 ELSE 0) ELSE b
    ELSE a
F64Sub[a \in F64Set, b \in F64Set] == F64Add[a, F64Neg[b]]
\* -1, 0, 1 as a < b, a = b, a > b, for floats that are not NaN
MagCmp(a, b) ==
    IF F64IsInf(a) THEN IF F64IsInf(b) THEN 0 ELSE 1
    ELSE IF F64IsInf(b) THEN -1
    ELSE IF F64IsZero(a) THEN IF F64IsZero(b) THEN 0 ELSE -1
    ELSE IF F64IsZero(b) THEN 1
    ELSE IF a.e # b.e THEN IF a.e < b.e THEN -1 ELSE 1
    ELSE BigCmp[a.m, b.m]
F64Cmp(a, b) ==
    IF F64IsZero(a) /\ F64IsZero(b) THEN 0
    ELSE IF a.s # b.s THEN IF a.s = 1 THEN -1 ELSE 1
    ELSE IF a.s = 1 THEN -MagCmp(a, b) ELSE MagCmp(a, b)
\* comparisons: every comparison with NaN is false
F64Lt[a \in F64Set, b \in F64Set] == ~F64IsNaN(a) /\ ~F64IsNaN(b) /\ F64Cmp(a, b) < 0
F64Le[a \in F64Set, b \in F64Set] == ~F64IsNaN(a) /\ ~F64IsNaN(b) /\ F64Cmp(a, b) <= 0
F64Gt[a \in F64Set, b \in F64Set] == F64Lt[b, a]
F64Ge[a \in F64Set, b \in F64Set] == F64Le[b, a]
F64One == [cls |-> "num", s |-> 0, e |-> -52, m |-> <<0, 0, 0, 1024>>]
\* f64::powi: the multiplications of __powidf2 (square and multiply)
PowiLoop[a \in F64Set, pow \in Nat, mul \in F64Set] ==
    IF pow \div 2 = 0 THEN IF pow % 2 = 1 THEN F64Mul[mul, a] ELSE mul
    ELSE PowiLoop[F64Mul[a, a], pow \div 2, IF pow % 2 = 1 THEN F64Mul[mul, a] ELSE mul]
F64Powi[a \in F64Set, k \in Int] ==
    IF k < 0 THEN F64Div[F64One, PowiLoop[a, -k, F64One]] ELSE PowiLoop[a, k, F64One]
\* the root r of n at the float next to it on one side: above it if up, else
\* below it; the root itself if it is a float (sh bits of r are dropped)
Directed[e \in Int, r \in Digits, sh \in Nat, up \in BOOLEAN, sticky \in BOOLEAN] ==
    Carried[0, e + sh, IF up /\ (sticky \/ LowBitsNonZero(r, sh))
                       THEN BigAdd[ShiftRight[r, sh, 4], <<1>>, 4]
                       ELSE ShiftRight[r, sh, 4]]
\* the root r of n, rounded: to the nearest float, or to the float below or
\* above the root
Rooted[e \in Int, n \in Digits, r \in Digits, to \in STRING] ==
    IF to = "nearest" THEN RoundPack[0, e, r, BigCmp[BigMul[r, r], n] # 0]
    ELSE Directed[e, r, BitLength[r] - 53, to = "up", BigCmp[BigMul[r, r], n] # 0]
\* the square root of 2^(2 * e) * n, for n of 110 or 111 bits
Shifted[e \in Int, n \in Digits, to \in STRING] ==
    Rooted[e, n, SqrtBits[n, BigZero(4), 55, 0], to]
\* the square root of a float above zero; t0 brings the mantissa to 110 bits
Even[a \in F64Set, t0 \in Nat, to \in STRING] ==
    IF (a.e - t0) % 2 = 0 THEN Shifted[(a.e - t0) \div 2, ShiftLeft[a.m, t0, 8], to]
    ELSE Shifted[(a.e - t0 - 1) \div 2, ShiftLeft[a.m, t0 + 1, 8], to]
\* the square root rounded to the nearest float ("nearest"), or to the float
\* below ("down") or above ("up") the root
F64SqrtTo[a \in F64Set, to \in STRING] ==
    IF F64IsNormal(a) /\ a.s = 0 THEN Even[a, 110 - BitLength[a.m], to]
    ELSE IF F64IsNaN(a) \/ F64IsZero(a) THEN a
    ELSE IF a.s = 1 THEN F64NaN
    ELSE a
\* the correctly rounded square root
F64Sqrt[a \in F64Set] == F64SqrtTo[a, "nearest"]

(***************************************************************************)
(* Convergence (src/src/nonlinear_solver/mod.rs).                          *)
(***************************************************************************)
\* the exponent of f64::EPSILON = 2^-52
EpsilonExponent == 52
\* C::T::EPSILON with C::T = f64
EPSILON ==
    [cls |-> "num", s |-> 0, e |-> -EpsilonExponent - 52, m |-> ShiftLeft[<<1>>, 52, 4]]
\* i32::MAX
I32Max == 2147483647

\* enum ConvergenceStatus, and the two ways a call ends without a status
Statuses == {"Converged", "Diverged", "Continue", "MaximumIterations"}
Panics == {"PanicNotReset", "PanicSubOverflow"}

\* T::pow(x, 0.5) is powf(x, 0.5): +0 for -0, +inf for -inf, and else the
\* square root to within one unit in the last place.  A build that calls the
\* library's pow returns the float below or the float above the root, a
\* build that computes the square root instead returns the nearer of the
\* two: the results that a build can give (one if the root is a float)
F64PowHalf(a) ==
    IF F64IsZero(a) \/ F64IsInf(a) THEN {F64Abs[a]}
    ELSE {F64SqrtTo[a, "down"], F64SqrtTo[a, "up"]}

\* Convergence::new, lines 74-79: tol clamped from above to maximum_tol, then
\* from below to minimum_tol
ClampedTol[minimum_tol \in F64Set, maximum_tol \in F64Set, tol0 \in F64Set] ==
    LET tol1 == IF F64Gt[tol0, maximum_tol] THEN maximum_tol ELSE tol0
    IN  IF F64Lt[tol1, minimum_tol] THEN minimum_tol ELSE tol1
\* Convergence::new, lines 71-79: tol = 0.5 * rtol^0.5 clamped from above to
\* 0.03, then from below to 10 * EPSILON / rtol, for each result of rtol^0.5
ConvergenceTol(r) ==
    {ClampedTol[F64Div[F64Mul[F64FromInt(10), EPSILON], r],
                F64Div[F64FromInt(3), F64FromInt(100)],
                F64Mul[F64Div[F64One, F64FromInt(2)], pow]] : pow \in F64PowHalf(r)}

\* the tolerances of the problem handed to Convergence::new, which takes them
\* as they are: rtol is 0.0 (a purely absolute tolerance) or 1.0, atol is 1.0
RtolVals == {F64Zero(0), F64One}
AtolVals == {F64One}

\* Convergence::new, lines 80-88
ConvInit ==
    /\ rtol \in RtolVals
    /\ atol \in AtolVals
    /\ max_iter \in 0..MaxMaxIter
    /\ tol \in ConvergenceTol(rtol)
    /\ scale = None
    /\ old_norm = None
    /\ iter = 0
    /\ status = "NoCall"
    /\ call = None
    /\ reset_called = FALSE
    /\ checks_since_reset = 0
    /\ all_continue = TRUE
    /\ reset_call = None

\* reset as it would be if it did not store the scale
ResetFields_NoScale(y) ==
    [scale |-> scale, iter |-> 0, old_norm |-> None]

\* reset as it would be if it kept the recorded norm
ResetFields_KeepOldNorm(y) ==
    [scale |-> Some(F64Add[F64Mul[F64Abs[y], rtol], atol]),
     iter |-> 0,
     old_norm |-> old_norm]

\* Convergence::reset, lines 91-95: the fields it assigns
ResetFields(y) ==
    [scale |-> Some(F64Add[F64Mul[F64Abs[y], rtol], atol]),
     iter |-> 0,
     old_norm |-> None]

Reset(y) ==
    /\ status \notin Panics
    /\ LET f == ResetFields(y)
       IN  /\ scale' = f.scale
           /\ iter' = f.iter
           /\ old_norm' = f.old_norm
    /\ reset_called' = TRUE
    /\ checks_since_reset' = 0
    /\ all_continue' = TRUE
    /\ status' = "NoCall"
    /\ call' = None
    /\ reset_call' = Some([y |-> y, had_old_norm |-> IsSome(old_norm)])
    /\ UNCHANGED <<rtol, atol, tol, max_iter>>

\* line 101: dy.component_div_assign(scale), for a vector of one component
ScaledDy(dy) == F64Div[dy, Unwrap(scale)]
\* the Euclidean norm of a vector of one component, sqrt(x * x).  In binary
\* floating point the rounded root of the rounded square of x is |x| unless
\* the square overflows or underflows, so the root is taken in these cases only.
Norm[x \in F64Set] ==
    LET sq == F64Mul[x, x]
    IN  IF sq.cls = "num" /\ BitLength[sq.m] = 53 THEN F64Abs[x] ELSE F64Sqrt[sq]
\* line 102: dy.norm() of the scaled dy
ScaledNorm(dy) == Norm[ScaledDy(dy)]
\* the test of line 104 left out
NormIsZero_Never(norm) == FALSE
\* line 104
NormIsZero(norm) == F64Le[norm, EPSILON]
\* line 108
Rate(norm) == F64Div[norm, Unwrap(old_norm)]
\* line 110
RateDiverged(rate) == F64Gt[rate, F64One]
\* line 115
RateConverged(rate, norm) ==
    F64Lt[F64Mul[F64Div[rate, F64Sub[F64One, rate]], norm], tol]
\* line 121: i32::try_from(self.max_iter - self.iter).unwrap() panics when
\* the unsigned subtraction overflows (a panic in a debug build; in a release
\* build it wraps to a value above i32::MAX) and when the difference does not
\* fit an i32
SubOverflows == iter > max_iter \/ max_iter - iter > I32Max
\* lines 121-124 with the exponent max_iter instead of max_iter - iter
ProjectedDiverged_FullBudget(rate, norm) ==
    F64Gt[F64Mul[F64Div[F64Powi[rate, max_iter], F64Sub[F64One, rate]], norm], tol]
\* lines 121-124
ProjectedDiverged(rate, norm) ==
    F64Gt[F64Mul[F64Div[F64Powi[rate, max_iter - iter], F64Sub[F64One, rate]], norm], tol]

\* lines 129-135 without line 130
Advance_NoRecord(norm) ==
    [status |-> IF iter + 1 >= max_iter THEN "MaximumIterations" ELSE "Continue",
     iter |-> iter + 1,
     old_norm |-> old_norm]
\* lines 129-135 with > for >= in line 131
Advance_OffByOne(norm) ==
    [status |-> IF iter + 1 > max_iter THEN "MaximumIterations" ELSE "Continue",
     iter |-> iter + 1,
     old_norm |-> Some(norm)]
\* lines 129-135
Advance(norm) ==
    [status |-> IF iter + 1 >= max_iter THEN "MaximumIterations" ELSE "Continue",
     iter |-> iter + 1,
     old_norm |-> Some(norm)]
Return(s) == [status |-> s, iter |-> iter, old_norm |-> old_norm]

\* lines 110-135 with the projected-failure test (lines 121-127) placed before
\* the rate test (lines 115-117)
RateOutcome_ProjectedFirst(rate, norm) ==
    IF RateDiverged(rate) THEN Return("Diverged")
    ELSE IF SubOverflows THEN Return("PanicSubOverflow")
    ELSE IF ProjectedDiverged(rate, norm) THEN Return("Diverged")
    ELSE IF RateConverged(rate, norm) THEN Return("Converged")
    ELSE Advance(norm)
\* lines 110-135: what the call does with the rate of line 108
RateOutcome(rate, norm) ==
    IF RateDiverged(rate) THEN Return("Diverged")
    ELSE IF RateConverged(rate, norm) THEN Return("Converged")
    ELSE IF SubOverflows THEN Return("PanicSubOverflow")
    ELSE IF ProjectedDiverged(rate, norm) THEN Return("Diverged")
    ELSE Advance(norm)
\* lines 104-135: what the call does with the norm of line 102
NormOutcome(norm) ==
    IF NormIsZero(norm) THEN Return("Converged")
    ELSE IF IsNone(old_norm) THEN Advance(norm)
    ELSE LET WithRate[rate \in F64Set] == RateOutcome(rate, norm)
         IN  WithRate[Rate(norm)]

\* Convergence::check_new_iteration, lines 97-136: the status it returns (or
\* the panic it ends with) and the fields it leaves
CheckOutcome(dy) ==
    IF IsNone(scale) THEN Return("PanicNotReset")
    ELSE LET WithNorm[norm \in F64Set] == NormOutcome(norm)
         IN  WithNorm[ScaledNorm(dy)]

CheckNewIteration(dy) ==
    /\ status \notin Panics
    /\ checks_since_reset < MaxChecks
    /\ \E r \in {CheckOutcome(dy)} :
           /\ status' = r.status
           /\ iter' = r.iter
           /\ old_norm' = r.old_norm
           /\ all_continue' = (all_continue /\ r.status = "Continue")
    /\ call' = Some([dy |-> dy,
                     dy_out |-> IF IsNone(scale) THEN dy ELSE ScaledDy(dy),
                     old_norm |-> old_norm,
                     iter |-> iter,
                     k |-> checks_since_reset,
                     in_solve |-> all_continue /\ reset_called])
    /\ checks_since_reset' = checks_since_reset + 1
    /\ reset_call' = IF checks_since_reset = 0 THEN reset_call ELSE None
    /\ UNCHANGED <<rtol, atol, tol, max_iter, scale, reset_called>>

DyVals == {F64Div[F64FromInt(d), F64FromInt(100)] : d \in (-MinDy)..MaxDy}
YVals == {F64FromInt(y) : y \in (-MaxY)..MaxY}

(***************************************************************************)
(* Closure and OpStatistics (src/src/op/closure.rs, src/src/op/mod.rs).    *)
(***************************************************************************)
\* nstates and nout range over 1 .. MaxNStates
MaxNStates == 2
\* no counter of OpStatistics is driven beyond MaxCount
MaxCount == 5
\* a Newton solve runs 1 .. MaxNewtonIter iterations
MaxNewtonIter == 2

\* OpStatistics::default / OpStatistics::new, op/mod.rs:44-58
OpStatisticsDefault ==
    [number_of_calls |-> 0, number_of_jac_muls |-> 0, number_of_matrix_evals |-> 0]
NoEvals == [func |-> 0, jacobian_action |-> 0, jacobian_inplace |-> 0, solves |-> 0]

\* OpStatistics::increment_call, op/mod.rs:60-62
IncrementCall(st) == [st EXCEPT !.number_of_calls = @ + 1]
\* OpStatistics::increment_jac_mul, op/mod.rs:64-66
IncrementJacMul(st) == [st EXCEPT !.number_of_jac_muls = @ + 1]
\* increment_matrix adding to the wrong counter
IncrementMatrix_JacMul(st) == [st EXCEPT !.number_of_jac_muls = @ + 1]
\* OpStatistics::increment_matrix, op/mod.rs:68-70
IncrementMatrix(st) == [st EXCEPT !.number_of_matrix_evals = @ + 1]

\* Closure::new, closure.rs:34-47
OpInit ==
    /\ closure \in [nstates : 1..MaxNStates, nout : 1..MaxNStates, nparams : {0}]
    /\ statistics = OpStatisticsDefault
    /\ coloring = None
    /\ sparsity = None
    /\ evals = NoEvals
    /\ op_last = None

\* The operations below act on S = [st |-> statistics, ev |-> evals].
\* Closure::call_inplace, closure.rs:91-94
CallInplaceOn(S) ==
    [st |-> IncrementCall(S.st), ev |-> [S.ev EXCEPT !.func = @ + 1]]
\* Closure::jac_mul_inplace, closure.rs:95-98
JacMulInplaceOn(S) ==
    [st |-> IncrementJacMul(S.st), ev |-> [S.ev EXCEPT !.jacobian_action = @ + 1]]
\* n calls of jac_mul_inplace in a row
RECURSIVE JacMulLoop(_, _)
JacMulLoop(S, n) == IF n = 0 THEN S ELSE JacMulLoop(JacMulInplaceOn(S), n - 1)
RECURSIVE CallLoop(_, _)
CallLoop(S, n) == IF n = 0 THEN S ELSE CallLoop(CallInplaceOn(S), n - 1)
\* NonLinearOp::_default_jacobian_inplace, op/mod.rs:105-114: one
\* jac_mul_inplace per column
DefaultJacobianInplaceOn(S) == JacMulLoop(S, closure.nstates)
\* JacobianColoring::jacobian_inplace (spec 4.3): one jac_mul_inplace per color
ColoringJacobianInplaceOn(S) == JacMulLoop(S, Unwrap(coloring))
\* Closure::jacobian_inplace, closure.rs:99-106
JacobianInplaceOn(S) ==
    LET S1 == [st |-> IncrementMatrix(S.st),
               ev |-> [S.ev EXCEPT !.jacobian_inplace = @ + 1]]
    IN  IF IsSome(coloring) THEN ColoringJacobianInplaceOn(S1)
        ELSE DefaultJacobianInplaceOn(S1)
\* find_non_zeros_nonlinear (spec 4.3): one jac_mul_inplace per basis vector
FindNonZerosOn(S) == JacMulLoop(S, closure.nstates)

Now == [st |-> statistics, ev |-> evals]
WithinCap(S) ==
    /\ S.st.number_of_calls <= MaxCount
    /\ S.st.number_of_jac_muls <= MaxCount
    /\ S.st.number_of_matrix_evals <= MaxCount
    /\ S.ev.func <= MaxCount
    /\ S.ev.jacobian_action <= MaxCount
Becomes(S, name) ==
    /\ WithinCap(S)
    /\ statistics' = S.st
    /\ evals' = S.ev
    /\ op_last' = Some([op |-> name, before |-> statistics])

CallInplace ==
    /\ Becomes(CallInplaceOn(Now), "call_inplace")
    /\ UNCHANGED <<closure, coloring, sparsity>>
JacMulInplace ==
    /\ Becomes(JacMulInplaceOn(Now), "jac_mul_inplace")
    /\ UNCHANGED <<closure, coloring, sparsity>>
JacobianInplace ==
    /\ Becomes(JacobianInplaceOn(Now), "jacobian_inplace")
    /\ UNCHANGED <<closure, coloring, sparsity>>
\* Closure::calculate_sparsity, closure.rs:49-56.  The pattern found, and with
\* it the number of colors, depends on the closure jacobian_action.
CalculateSparsity(ncolors) ==
    /\ Becomes(FindNonZerosOn(Now), "calculate_sparsity")
    /\ sparsity' = Some([nrows |-> closure.nout, ncols |-> closure.nstates])
    /\ coloring' = Some(ncolors)
    /\ UNCHANGED closure
\* NonLinearSolver::solve_in_place (spec 4.4): every iteration evaluates the
\* residual once, and a solve runs at least one iteration
NewtonSolve(niter) ==
    /\ LET S == CallLoop(Now, niter)
       IN  Becomes([S EXCEPT !.ev.solves = @ + 1], "solve")
    /\ evals.solves < MaxCount
    /\ UNCHANGED <<closure, coloring, sparsity>>

OpNext ==
    \/ CallInplace /\ UNCHANGED <<convVars, probVars, triVars, restVars>>
    \/ JacMulInplace /\ UNCHANGED <<convVars, probVars, triVars, restVars>>
    \/ JacobianInplace /\ UNCHANGED <<convVars, probVars, triVars, restVars>>
    \/ \E c \in 1..closure.nstates :
           CalculateSparsity(c) /\ UNCHANGED <<convVars, probVars, triVars, restVars>>
    \/ \E n \in 1..MaxNewtonIter :
           NewtonSolve(n) /\ UNCHANGED <<convVars, probVars, triVars, restVars>>

(***************************************************************************)
(* OdeSolverProblem and its shared equations                               *)
(* (src/src/ode_solver/problem.rs).                                        *)
(***************************************************************************)
\* at most MaxHolders holders of the Rc<Eqn> at a time
MaxHolders == 3
\* parameter vectors are 0 .. MaxParam
MaxParam == 2

Slots == 1..MaxHolders
\* Rc::strong_count(&eqn)
StrongCount == Cardinality({h \in Slots : holders[h] # "none"})

\* OdeSolverProblem::new, problem.rs:34-44: one problem holds the new Rc
ProbInit ==
    /\ holders = [h \in Slots |-> IF h = 1 THEN "problem" ELSE "none"]
    /\ eqn_p = 0
    /\ set_params_call = None

\* impl Clone for OdeSolverProblem, problem.rs:15-25: eqn.clone() adds a holder
CloneProblem(src, dst) ==
    /\ holders[src] = "problem"
    /\ holders[dst] = "none"
    /\ holders' = [holders EXCEPT ![dst] = "problem"]
    /\ UNCHANGED <<eqn_p, set_params_call>>
\* OdeSolverMethod::set_problem: the solver keeps a clone of the problem
SolverSetProblem(src, dst) ==
    /\ holders[src] = "problem"
    /\ holders[dst] = "none"
    /\ holders' = [holders EXCEPT ![dst] = "solver"]
    /\ UNCHANGED <<eqn_p, set_params_call>>
\* a problem, or a solver with its copy, is dropped
DropHolder(h) ==
    /\ holders[h] # "none"
    /\ holders' = [holders EXCEPT ![h] = "none"]
    /\ UNCHANGED <<eqn_p, set_params_call>>

\* Rc::get_mut handing out the equations whoever else holds them
RcGetMut_Shared(count) == count >= 1
\* Rc::get_mut(&mut self.eqn), problem.rs:47: Some only for the one holder
RcGetMut(count) == count = 1
\* eqn.set_params(p), problem.rs:48
EqnSetParams(p) == p

\* OdeSolverProblem::set_params, problem.rs:46-50
SetParams(h, p) ==
    /\ holders[h] = "problem"
    /\ LET ok == RcGetMut(StrongCount)
       IN  /\ eqn_p' = IF ok THEN EqnSetParams(p) ELSE eqn_p
           /\ set_params_call' =
                  Some([by |-> h, p |-> p,
                        result |-> IF ok THEN "Ok" ELSE "Err",
                        others |-> StrongCount - 1,
                        p_before |-> eqn_p,
                        after_err |-> /\ IsSome(set_params_call)
                                      /\ \/ Unwrap(set_params_call).result = "Err"
                                         \/ Unwrap(set_params_call).after_err])
    /\ UNCHANGED holders

ProbNext ==
    \/ \E src, dst \in Slots :
           CloneProblem(src, dst) /\ UNCHANGED <<convVars, opVars, triVars, restVars>>
    \/ \E src, dst \in Slots :
           SolverSetProblem(src, dst) /\ UNCHANGED <<convVars, opVars, triVars, restVars>>
    \/ \E h \in Slots : DropHolder(h) /\ UNCHANGED <<convVars, opVars, triVars, restVars>>
    \/ \E h \in Slots, p \in 0..MaxParam :
           SetParams(h, p) /\ UNCHANGED <<convVars, opVars, triVars, restVars>>

(***************************************************************************)
(* Matrix::try_from_triplets of the two dense backends                     *)
(* (src/src/matrix/dense_nalgebra_serial.rs, src/src/matrix/sundials.rs).  *)
(* A matrix is a function from <<i, j>> to its entry.                      *)
(***************************************************************************)
\* nrows and ncols range over 1 .. MaxDim, triplet indices over 0 .. MaxDim
MaxDim == 2
\* a call is given at most MaxTriplets triplets
MaxTriplets == 2
\* the values of the triplets (1.0 and 2.0)
TripletVals == {1, 2}

\* Matrix::zeros, dense_nalgebra_serial.rs:120-122 and sundials.rs:274-278
Zeros(nrows, ncols) == [ij \in (0..(nrows - 1)) \X (0..(ncols - 1)) |-> 0]
Outcome(kind, m) == [kind |-> kind, m |-> m]

\* the loop of dense_nalgebra_serial.rs:115-117 keeping the first value
\* written to a position
RECURSIVE DMatrixFill_FirstWins(_, _, _, _)
DMatrixFill_FirstWins(m, nrows, ncols, triplets) ==
    IF triplets = <<>> THEN Outcome("Ok", Some(m))
    ELSE LET t == Head(triplets)
         IN  IF t[1] >= nrows \/ t[2] >= ncols
             THEN Outcome("Panic", None)
             ELSE DMatrixFill_FirstWins(
                      IF m[<<t[1], t[2]>>] = 0 THEN [m EXCEPT ![<<t[1], t[2]>>] = t[3]]
                      ELSE m,
                      nrows, ncols, Tail(triplets))

\* m[(i, j)] = v on a DMatrix, dense_nalgebra_serial.rs:116: nalgebra's
\* IndexMut asserts that the index is inside the matrix and panics if not
RECURSIVE DMatrixFill(_, _, _, _)
DMatrixFill(m, nrows, ncols, triplets) ==
    IF triplets = <<>> THEN Outcome("Ok", Some(m))
    ELSE LET t == Head(triplets)
         IN  IF t[1] >= nrows \/ t[2] >= ncols
             THEN Outcome("Panic", None)
             ELSE DMatrixFill([m EXCEPT ![<<t[1], t[2]>>] = t[3]],
                              nrows, ncols, Tail(triplets))
\* <DMatrix<T> as Matrix>::try_from_triplets, dense_nalgebra_serial.rs:109-119
DMatrixTryFromTriplets(nrows, ncols, triplets) ==
    DMatrixFill(Zeros(nrows, ncols), nrows, ncols, triplets)

\* the loop of sundials.rs:295-300
RECURSIVE SundialsFill(_, _, _, _)
SundialsFill(m, nrows, ncols, triplets) ==
    IF triplets = <<>> THEN Outcome("Ok", Some(m))
    ELSE LET t == Head(triplets)
         IN  IF t[1] >= nrows \/ t[2] >= ncols
             THEN Outcome("Err", None)
             ELSE SundialsFill([m EXCEPT ![<<t[1], t[2]>>] = t[3]],
                               nrows, ncols, Tail(triplets))
\* <SundialsMatrix as Matrix>::try_from_triplets, sundials.rs:289-302
SundialsTryFromTriplets(nrows, ncols, triplets) ==
    SundialsFill(Zeros(nrows, ncols), nrows, ncols, triplets)

Triplets == (0..MaxDim) \X (0..MaxDim) \X TripletVals
TripletLists == UNION {[1..n -> Triplets] : n \in 0..MaxTriplets}
Backends == {"nalgebra", "sundials"}

\* the arguments of one call
TriInit ==
    /\ tri_in \in {Some(c) : c \in [backend : Backends, nrows : 1..MaxDim,
                                    ncols : 1..MaxDim, triplets : TripletLists]}
    /\ tri_out = None
    /\ tri_round = None

\* the backend's try_from_triplets
BackendTryFromTriplets(backend, nrows, ncols, triplets) ==
    IF backend = "nalgebra" THEN DMatrixTryFromTriplets(nrows, ncols, triplets)
    ELSE SundialsTryFromTriplets(nrows, ncols, triplets)

TryFromTriplets ==
    /\ IsSome(tri_in)
    /\ tri_out = None
    /\ LET c == Unwrap(tri_in)
       IN  tri_out' = Some(BackendTryFromTriplets(c.backend, c.nrows, c.ncols, c.triplets))
    /\ UNCHANGED <<tri_in, tri_round>>

\* triplets_of(M): the entries (i, j, M[i][j]) of a matrix, row by row or
\* column by column
RECURSIVE EntriesFrom(_, _, _, _, _)
EntriesFrom(m, nrows, ncols, order, k) ==
    IF k = nrows * ncols THEN <<>>
    ELSE LET i == IF order = "rows" THEN k \div ncols ELSE k % nrows
             j == IF order = "rows" THEN k % ncols ELSE k \div nrows
         IN  <<(<<i, j, m[<<i, j>>]>>)>> \o EntriesFrom(m, nrows, ncols, order, k + 1)
TripletsOf(m, nrows, ncols, order) == EntriesFrom(m, nrows, ncols, order, 0)

\* a matrix that was built is built again from the list of its entries
RebuildFromTriplets(order) ==
    /\ IsSome(tri_out)
    /\ Unwrap(tri_out).kind = "Ok"
    /\ tri_round = None
    /\ LET c == Unwrap(tri_in)
           m == Unwrap(Unwrap(tri_out).m)
       IN  tri_round' = Some(BackendTryFromTriplets(c.backend, c.nrows, c.ncols,
                                 TripletsOf(m, c.nrows, c.ncols, order)))
    /\ UNCHANGED <<tri_in, tri_out>>

TriNext ==
    \/ TryFromTriplets /\ UNCHANGED <<convVars, opVars, probVars, restVars>>
    \/ \E order \in {"rows", "columns"} :
           RebuildFromTriplets(order) /\ UNCHANGED <<convVars, opVars, probVars, restVars>>

(***************************************************************************)
(* Matrix::gemv of the two dense backends (sundials.rs:304-312,            *)
(* dense_nalgebra_serial.rs:130-132).  The scalars are f64.  A vector is a *)
(* function from 0 .. n-1 to its entries, a matrix a function from the     *)
(* pairs <<i, j>>.  A call works on a memory [A, x, y, tmp]: the matrix    *)
(* self, the arguments x and y, and the vector tmp of the sundials         *)
(* backend; what a call returns is read from the memory it leaves.         *)
(***************************************************************************)
\* A[i][j] = slope * (i * ncols + j) + offset with slope in 0 .. MaxGemvSlope
\* and offset in 0 .. MaxGemvOffset
MaxGemvSlope == 1
MaxGemvOffset == 1
\* the entries of x are 2^-53 or an integer of 0 .. MaxGemvX, those of y are
\* NaN or an integer of 1 .. MaxGemvY
MaxGemvX == 1
MaxGemvY == 1
\* alpha is 2^1023 or an integer of 0 .. MaxAlpha, beta an integer of
\* -MaxBeta .. MaxBeta
MaxAlpha == 2
MaxBeta == 1

\* 2^-53, half of the distance from 1.0 to the next f64
HalfUlp == [F64One EXCEPT !.e = -105]
\* 2^1023, the largest power of two of f64
Huge == [F64One EXCEPT !.e = 971]

\* SUNMatMatvec on a dense matrix: tmp is set to zero and gets, column by
\* column, tmp[i] += A[i][j] * x[j]
RECURSIVE MatvecFrom(_, _, _, _, _)
MatvecFrom(tmp, A, x, ncols, j) ==
    IF j = ncols THEN tmp
    ELSE MatvecFrom([i \in DOMAIN tmp |-> F64Add[tmp[i], F64Mul[A[<<i, j>>], x[j]]]],
                    A, x, ncols, j + 1)
\* SUNMatMatvec(a, x, tmp), sundials.rs:308: writes tmp and nothing else
SUNMatMatvec(mem, nrows, ncols) ==
    [mem EXCEPT !.tmp = MatvecFrom([i \in 0..(nrows - 1) |-> F64Zero(0)],
                                   mem.A, mem.x, ncols, 0)]
\* y.axpy(alpha, &tmp, beta), sundials.rs:311: y <- alpha * tmp + beta * y,
\* the two products and the sum rounded; writes y and nothing else
Axpy(mem, alpha, beta) ==
    [mem EXCEPT !.y = [i \in DOMAIN mem.y |->
                           F64Add[F64Mul[alpha, mem.tmp[i]], F64Mul[beta, mem.y[i]]]]]

\* <SundialsMatrix as Matrix>::gemv, sundials.rs:305-312: the memory it leaves
SundialsGemv(mem, nrows, ncols, alpha, beta) ==
    Axpy(SUNMatMatvec(mem, nrows, ncols), alpha, beta)

\* nalgebra's axcpy: y <- a * col * c + b * y, where y is not read if b is zero
Axcpy(y, a, col, c, b) ==
    [i \in DOMAIN y |->
        IF F64IsZero(b) THEN F64Mul[F64Mul[a, col[i]], c]
        ELSE F64Add[F64Mul[F64Mul[a, col[i]], c], F64Mul[b, y[i]]]]
\* nalgebra's Vector::gemv: the first column with beta, the others with 1
RECURSIVE NalgebraGemvFrom(_, _, _, _, _, _)
NalgebraGemvFrom(y, A, ncols, alpha, x, j) ==
    IF j = ncols THEN y
    ELSE NalgebraGemvFrom(Axcpy(y, alpha, [i \in DOMAIN y |-> A[<<i, j>>]], x[j], F64One),
                          A, ncols, alpha, x, j + 1)
\* <DMatrix<T> as Matrix>::gemv, dense_nalgebra_serial.rs:130-132: the memory
\* y.gemv(alpha, self, x, beta) leaves; without columns y is scaled by beta,
\* or set to zero if beta is zero
DMatrixGemv(mem, nrows, ncols, alpha, beta) ==
    [mem EXCEPT !.y =
        IF ncols = 0
        THEN [i \in DOMAIN mem.y |->
                 IF F64IsZero(beta) THEN F64Zero(0) ELSE F64Mul[mem.y[i], beta]]
        ELSE NalgebraGemvFrom(
                 Axcpy(mem.y, alpha, [i \in DOMAIN mem.y |-> mem.A[<<i, 0>>]], mem.x[0], beta),
                 mem.A, ncols, alpha, mem.x, 1)]

\* the arguments of the model: the matrices with the entries of above, alpha
\* among the integers and 2^1023, beta among the integers, the entries of x
\* among the integers and 2^-53, those of y among the integers and NaN
GemvInputs ==
    LET Matrix(nrows, ncols, slope, offset) ==
            [ij \in (0..(nrows - 1)) \X (0..(ncols - 1)) |->
                F64FromInt(slope * (ij[1] * ncols + ij[2]) + offset)]
        Alphas == {F64FromInt(k) : k \in 0..MaxAlpha} \cup {Huge}
        Betas == {F64FromInt(k) : k \in (-MaxBeta)..MaxBeta}
        Xs == {F64FromInt(k) : k \in 0..MaxGemvX} \cup {HalfUlp}
        Ys == {F64FromInt(k) : k \in 1..MaxGemvY} \cup {F64NaN}
    IN  UNION {UNION {
            [A : {Matrix(nr, nc, sl, off) : sl \in 0..MaxGemvSlope, off \in 0..MaxGemvOffset},
             nrows : {nr}, ncols : {nc},
             alpha : Alphas, beta : Betas,
             x : [0..(nc - 1) -> Xs],
             y : [0..(nr - 1) -> Ys]] : nc \in 1..MaxDim} : nr \in 1..MaxDim}

\* the arguments of the calls; no backend has been called
GemvInit ==
    /\ gemv_in \in {Some(c) : c \in GemvInputs}
    /\ gemv_out = [sundials |-> None, nalgebra |-> None]

\* the memory at the call: self, x and y as the caller holds them, and the
\* vector tmp of nrows entries that the sundials backend allocates (line 306);
\* SUNMatMatvec sets tmp before anything reads it
GemvMemory(c) ==
    [A |-> c.A, x |-> c.x, y |-> c.y, tmp |-> [i \in 0..(c.nrows - 1) |-> F64Zero(0)]]
\* what the caller finds in self, x and y after the call; tmp is dropped
GemvReturned(mem) == [A |-> mem.A, x |-> mem.x, y |-> mem.y]

GemvSundials ==
    /\ IsSome(gemv_in)
    /\ IsNone(gemv_out.sundials)
    /\ LET c == Unwrap(gemv_in)
       IN  gemv_out' = [gemv_out EXCEPT !.sundials =
               Some(GemvReturned(SundialsGemv(GemvMemory(c), c.nrows, c.ncols, c.alpha, c.beta)))]
    /\ UNCHANGED gemv_in
GemvNalgebra ==
    /\ IsSome(gemv_in)
    /\ IsNone(gemv_out.nalgebra)
    /\ LET c == Unwrap(gemv_in)
       IN  gemv_out' = [gemv_out EXCEPT !.nalgebra =
               Some(GemvReturned(DMatrixGemv(GemvMemory(c), c.nrows, c.ncols, c.alpha, c.beta)))]
    /\ UNCHANGED gemv_in

GemvIdle ==
    /\ gemv_in = None
    /\ gemv_out = [sundials |-> None, nalgebra |-> None]

(***************************************************************************)
(* OdeSolverState::new / new_consistent and OdeSolverMethod::solve /        *)
(* make_consistent_and_solve (src/src/ode_solver/method.rs).  Times are     *)
(* integers.  A problem is [n, t0, h0, mass]: the number of states, the     *)
(* start time, the first step size and the diagonal of the mass matrix at   *)
(* t0.                                                                      *)
(***************************************************************************)
\* a problem has 1 .. MaxOdeStates states
MaxOdeStates == 3
\* t0 ranges over 0 .. MaxT0, the target time t over 0 .. MaxT
MaxT0 == 1
MaxT == 2
\* a step advances the solver's time by 1 .. MaxDt
MaxDt == 2
\* the values the root solver leaves in y_filtered
RootVals == {7, 8}

\* eqn.init(t): the initial vector; every position holds another value
EqnInit(problem, t) == [i \in 0..(problem.n - 1) |-> 10 * (i + 1) + t]

\* OdeSolverState::new, method.rs:88-96
OdeSolverStateNew(problem) ==
    [y |-> EqnInit(problem, problem.t0), t |-> problem.t0, h |-> problem.h0]

\* Vector::filter_indices(|x| x == 0): the positions holding zero, ascending
RECURSIVE FilterIndicesFrom(_, _, _)
FilterIndicesFrom(v, n, i) ==
    IF i = n THEN <<>>
    ELSE (IF v[i] = 0 THEN <<i>> ELSE <<>>) \o FilterIndicesFrom(v, n, i + 1)
FilterIndices(v, n) == FilterIndicesFrom(v, n, 0)
\* Vector::filter: the entries at the positions of indices, in their order
Filter(y, indices) == [k \in 1..Len(indices) |-> y[indices[k]]]
\* Vector::scatter_from: entry k of y_filtered goes to position indices[k]
ScatterFrom(y, y_filtered, indices) ==
    [i \in DOMAIN y |->
        IF \E k \in 1..Len(indices) : indices[k] = i
        THEN y_filtered[CHOOSE k \in 1..Len(indices) : indices[k] = i]
        ELSE y[i]]

\* what root_solver.solve_in_place does: it fails, or it leaves vals[k] in
\* entry k of y_filtered
RootOutcomes(n) == [kind : {"Ok", "Err"}, vals : [1..n -> RootVals]]
RootSolveInPlace(y_filtered, rootOutcome) ==
    [k \in DOMAIN y_filtered |-> rootOutcome.vals[k]]
NoRootCalls == [set_problem |-> 0, solve_in_place |-> 0]

\* new_consistent with the early return of lines 112-114 left out
NewConsistent_NoEarlyReturn(problem, rootOutcome, rootCalls) ==
    LET t == problem.t0
        h == problem.h0
        indices == FilterIndices(problem.mass, problem.n)
        y == EqnInit(problem, t)
        calls == [set_problem |-> rootCalls.set_problem + 1,
                  solve_in_place |-> rootCalls.solve_in_place + 1]
    IN  IF rootOutcome.kind = "Err"
        THEN [kind |-> "Err", state |-> None, root |-> calls]
        ELSE [kind |-> "Ok",
              state |-> Some([y |-> ScatterFrom(y, RootSolveInPlace(Filter(y, indices), rootOutcome), indices),
                              t |-> t, h |-> h]),
              root |-> calls]
\* new_consistent selecting the positions whose mass entry is not zero
NewConsistent_Differential(problem, rootOutcome, rootCalls) ==
    LET t == problem.t0
        h == problem.h0
        indices == FilterIndices([i \in DOMAIN problem.mass |-> 1 - problem.mass[i]],
                                 problem.n)
        y == EqnInit(problem, t)
        calls == [set_problem |-> rootCalls.set_problem + 1,
                  solve_in_place |-> rootCalls.solve_in_place + 1]
    IN  IF Len(indices) = 0
        THEN [kind |-> "Ok", state |-> Some([y |-> y, t |-> t, h |-> h]),
              root |-> rootCalls]
        ELSE IF rootOutcome.kind = "Err"
        THEN [kind |-> "Err", state |-> None, root |-> calls]
        ELSE [kind |-> "Ok",
              state |-> Some([y |-> ScatterFrom(y, RootSolveInPlace(Filter(y, indices), rootOutcome), indices),
                              t |-> t, h |-> h]),
              root |-> calls]
\* OdeSolverState::new_consistent, method.rs:99-126: the Result it returns
\* and the root solver's call counters after it
NewConsistent(problem, rootOutcome, rootCalls) ==
    LET t == problem.t0
        h == problem.h0
        indices == FilterIndices(problem.mass, problem.n)
        y == EqnInit(problem, t)
        calls == [set_problem |-> rootCalls.set_problem + 1,
                  solve_in_place |-> rootCalls.solve_in_place + 1]
    IN  IF Len(indices) = 0
        THEN [kind |-> "Ok", state |-> Some([y |-> y, t |-> t, h |-> h]),
              root |-> rootCalls]
        ELSE IF rootOutcome.kind = "Err"
        THEN [kind |-> "Err", state |-> None, root |-> calls]
        ELSE [kind |-> "Ok",
              state |-> Some([y |-> ScatterFrom(y, RootSolveInPlace(Filter(y, indices), rootOutcome), indices),
                              t |-> t, h |-> h]),
              root |-> calls]

\* a solver that was never given a problem, and one that has solved another
\* problem before
SolverFresh == [problem |-> None, state |-> None, steps |-> 0, t_before |-> None]
SolverUsed ==
    [problem |-> Some("previous"),
     state |-> Some([y |-> [i \in 0..0 |-> 5], t |-> 1, h |-> 1]),
     steps |-> 1, t_before |-> Some(0)]

OdeProblems ==
    UNION {[n : {n}, t0 : 0..MaxT0, h0 : {1}, mass : [0..(n - 1) -> {0, 1}]]
               : n \in 1..MaxOdeStates}
OdeEntries == {"solve", "make_consistent_and_solve"}
NoOdeCalls == [set_problem |-> 0, step |-> 0, interpolate |-> 0, after_failure |-> 0]

\* a call of solve or make_consistent_and_solve is about to be made
OdeInit ==
    /\ ode_in \in {Some(c) : c \in [entry : OdeEntries, problem : OdeProblems,
                                    t : 0..MaxT, solver0 : {SolverFresh, SolverUsed}]}
    /\ ode_pc = "start"
    /\ solver = Unwrap(ode_in).solver0
    /\ root = NoRootCalls
    /\ ode_calls = NoOdeCalls
    /\ interp = None
    /\ ode_ret = None
    /\ nc_out = None

\* has an earlier call of the run failed?
Failed == IsSome(ode_ret) /\ Unwrap(ode_ret).kind = "Err"
\* one more call of method name on the solver
Called(name) ==
    [ode_calls EXCEPT ![name] = @ + 1,
                      !.after_failure = IF Failed THEN @ + 1 ELSE @]
\* OdeSolverMethod::set_problem: the solver takes the state and the problem
SetProblem(state) ==
    [problem |-> Some("given"), state |-> Some(state), steps |-> 0, t_before |-> None]

\* solve, method.rs:53-54
SolveStart ==
    /\ ode_pc = "start"
    /\ Unwrap(ode_in).entry = "solve"
    /\ solver' = SetProblem(OdeSolverStateNew(Unwrap(ode_in).problem))
    /\ ode_calls' = Called("set_problem")
    /\ ode_pc' = "loop"
    /\ UNCHANGED <<ode_in, root, interp, ode_ret, nc_out>>

\* make_consistent_and_solve, method.rs:68-69
ConsistentStart(rootOutcome) ==
    /\ ode_pc = "start"
    /\ Unwrap(ode_in).entry = "make_consistent_and_solve"
    /\ LET r == NewConsistent(Unwrap(ode_in).problem, rootOutcome, root)
       IN  /\ nc_out' = Some([kind |-> r.kind, state |-> r.state,
                              root_before |-> root, root_after |-> r.root,
                              vals |-> rootOutcome.vals])
           /\ root' = r.root
           /\ IF r.kind = "Err"
              THEN /\ ode_ret' = Some([kind |-> "Err", from |-> "new_consistent"])
                   /\ ode_pc' = "done"
                   /\ UNCHANGED <<solver, ode_calls>>
              ELSE /\ solver' = SetProblem(Unwrap(r.state))
                   /\ ode_calls' = Called("set_problem")
                   /\ ode_pc' = "loop"
                   /\ UNCHANGED ode_ret
    /\ UNCHANGED <<ode_in, interp>>

\* the loop of method.rs:55-57 (70-72) with the result of step ignored
LoopStep_IgnoreError(ok, dt) ==
    /\ ode_pc = "loop"
    /\ Unwrap(solver.state).t <= Unwrap(ode_in).t
    /\ ode_calls' = Called("step")
    /\ IF ok
       THEN /\ solver' = [solver EXCEPT !.state = Some([Unwrap(@) EXCEPT !.t = @ + dt]),
                                        !.steps = @ + 1,
                                        !.t_before = Some(Unwrap(solver.state).t)]
            /\ UNCHANGED ode_ret
       ELSE /\ ode_ret' = Some([kind |-> "Err", from |-> "step"])
            /\ solver' = [solver EXCEPT !.state = Some([Unwrap(@) EXCEPT !.t = @ + dt])]
    /\ ode_pc' = "loop"
    /\ UNCHANGED <<ode_in, root, interp, nc_out>>
\* the loop of method.rs:55-57 (70-72): while state.t <= t { self.step()?; }.
\* A step fails, or it moves the solver's time forward by dt.
LoopStep(ok, dt) ==
    /\ ode_pc = "loop"
    /\ Unwrap(solver.state).t <= Unwrap(ode_in).t
    /\ ode_calls' = Called("step")
    /\ IF ok
       THEN /\ solver' = [solver EXCEPT !.state = Some([Unwrap(@) EXCEPT !.t = @ + dt]),
                                        !.steps = @ + 1,
                                        !.t_before = Some(Unwrap(solver.state).t)]
            /\ ode_pc' = "loop"
            /\ UNCHANGED ode_ret
       ELSE /\ ode_ret' = Some([kind |-> "Err", from |-> "step"])
            /\ ode_pc' = "done"
            /\ UNCHANGED solver
    /\ UNCHANGED <<ode_in, root, interp, nc_out>>

\* method.rs:58 (73): the loop is left and interpolate(t) is called; its
\* Result is the Result of the call
Interpolate(ok) ==
    /\ ode_pc = "loop"
    /\ ~(Unwrap(solver.state).t <= Unwrap(ode_in).t)
    /\ ode_calls' = Called("interpolate")
    /\ interp' = Some([t |-> Unwrap(ode_in).t,
                       steps |-> solver.steps,
                       t_before |-> solver.t_before,
                       state_t |-> Unwrap(solver.state).t])
    /\ ode_ret' = Some([kind |-> IF ok THEN "Ok" ELSE "Err", from |-> "interpolate"])
    /\ ode_pc' = "done"
    /\ UNCHANGED <<ode_in, solver, root, nc_out>>

OdeIdle ==
    /\ ode_in = None
    /\ ode_pc = "done"
    /\ solver = SolverFresh
    /\ root = NoRootCalls
    /\ ode_calls = NoOdeCalls
    /\ interp = None
    /\ ode_ret = None
    /\ nc_out = None

(***************************************************************************)
(* The native handles of SundialsMatrix (src/src/matrix/sundials.rs).  The *)
(* operations act on W = [w |-> wrappers, h |-> handles].                  *)
(***************************************************************************)
\* at most MaxWrappers wrappers are alive at a time
MaxWrappers == 2
\* at most MaxHandles native matrices are ever made
MaxHandles == 3

WrapperSlots == 1..MaxWrappers
HandleIds == 1..MaxHandles
NoHandle == [made |-> "free", destroyed |-> 0]
\* the next native matrix the library hands out
FreshHandles(W) == {h \in HandleIds : W.h[h].made = "free"}
FreshHandle(W) == CHOOSE h \in FreshHandles(W) : \A g \in FreshHandles(W) : h <= g
Alive(W, w) == IsSome(W.w[w]) /\ W.h[Unwrap(W.w[w]).sm].destroyed = 0
FreeSlot(W, w) == IsNone(W.w[w])

\* SundialsMatrix::new_dense, sundials.rs:31-35 (and zeros, from_diagonal,
\* new_from_sparsity and try_from_triplets, which build on it): SUNDenseMatrix
\* makes a matrix and the wrapper owns it
NewDenseOn(W, w) ==
    LET h == FreshHandle(W)
    IN  [w |-> [W.w EXCEPT ![w] = Some([sm |-> h, owned |-> TRUE])],
         h |-> [W.h EXCEPT ![h] = [made |-> "constructor", destroyed |-> 0]]]
\* SundialsMatrix::new_not_owned, sundials.rs:36-38
NewNotOwnedOn(W, w, h) ==
    [w |-> [W.w EXCEPT ![w] = Some([sm |-> h, owned |-> FALSE])],
     h |-> [W.h EXCEPT ![h] = IF @.made = "free"
                              THEN [made |-> "external", destroyed |-> 0] ELSE @]]
\* SundialsMatrix::new_clone, sundials.rs:39-42: SUNMatClone makes a matrix
NewCloneOn(W, w) ==
    LET h == FreshHandle(W)
    IN  [w |-> [W.w EXCEPT ![w] = Some([sm |-> h, owned |-> TRUE])],
         h |-> [W.h EXCEPT ![h] = [made |-> "constructor", destroyed |-> 0]]]
\* drop destroying the matrix whether or not the wrapper owns it
DropOn_IgnoreOwned(W, w) ==
    LET m == Unwrap(W.w[w])
    IN  [w |-> [W.w EXCEPT ![w] = None],
         h |-> [W.h EXCEPT ![m.sm].destroyed = @ + 1]]
\* impl Drop for SundialsMatrix, sundials.rs:61-67
DropOn(W, w) ==
    LET m == Unwrap(W.w[w])
    IN  [w |-> [W.w EXCEPT ![w] = None],
         h |-> IF m.owned THEN [W.h EXCEPT ![m.sm].destroyed = @ + 1] ELSE W.h]

NowSun == [w |-> wrappers, h |-> handles]
BecomesSun(W) == wrappers' = W.w /\ handles' = W.h

\* no wrapper and no native matrix yet
SunInit ==
    /\ wrappers = [w \in WrapperSlots |-> None]
    /\ handles = [h \in HandleIds |-> NoHandle]

\* new_dense / zeros (274-278) / from_diagonal (280-287) /
\* new_from_sparsity (314-320) / try_from_triplets returning Ok (289-302)
SunNewDense(w) ==
    /\ FreeSlot(NowSun, w)
    /\ FreshHandles(NowSun) # {}
    /\ BecomesSun(NewDenseOn(NowSun, w))
\* try_from_triplets returning Err (line 297): the matrix m made by zeros in
\* line 294 is dropped on the way out
SunTryFromTripletsErr(w) ==
    /\ FreeSlot(NowSun, w)
    /\ FreshHandles(NowSun) # {}
    /\ BecomesSun(DropOn(NewDenseOn(NowSun, w), w))
\* new_not_owned on the handle of a live matrix or on a matrix made elsewhere
SunNewNotOwned(w, h) ==
    /\ FreeSlot(NowSun, w)
    /\ handles[h].destroyed = 0
    /\ handles[h].made = "free" => h = FreshHandle(NowSun)
    /\ BecomesSun(NewNotOwnedOn(NowSun, w, h))
\* impl Clone, sundials.rs:130-136; &a + &b, &a - &b (174-182) and
\* &a * scale, &a / scale (201-209) clone self and return the clone.  If
\* SUNMatCopy (or, in &a + &b and &a - &b, the SUNMatScaleAdd after it)
\* fails, unwrap panics and the clone is dropped by the unwinding.
SunClone(src, w, copied) ==
    /\ Alive(NowSun, src)
    /\ FreeSlot(NowSun, w)
    /\ FreshHandles(NowSun) # {}
    /\ BecomesSun(IF copied THEN NewCloneOn(NowSun, w)
                  ELSE DropOn(NewCloneOn(NowSun, w), w))
\* a + &b, a - &b (156-163), a * scale, a / scale (192-199): self is moved in
\* and moved out as the result.  In a + &b and a - &b the SUNMatScaleAdd of
\* add_assign / sub_assign (139-150) may answer an error (added is FALSE):
\* unwrap panics and self is dropped by the unwinding.
SunOpOwned(a, w, added) ==
    /\ Alive(NowSun, a)
    /\ added => FreeSlot(NowSun, w)
    /\ BecomesSun(IF added
                  THEN [w |-> [wrappers EXCEPT ![w] = wrappers[a], ![a] = None],
                        h |-> handles]
                  ELSE DropOn(NowSun, a))
\* a + b, a - b (165-172): rhs is moved in and dropped when the function
\* ends; when SUNMatScaleAdd answers an error the unwinding drops rhs and self
SunOpOwnedOwned(a, b, added) ==
    /\ a # b
    /\ Alive(NowSun, a)
    /\ Alive(NowSun, b)
    /\ BecomesSun(IF added THEN DropOn(NowSun, b)
                  ELSE DropOn(DropOn(NowSun, b), a))
\* a wrapper goes out of scope
SunDrop(w) ==
    /\ IsSome(wrappers[w])
    /\ BecomesSun(DropOn(NowSun, w))

SunIdle ==
    /\ wrappers = [w \in WrapperSlots |-> None]
    /\ handles = [h \in HandleIds |-> NoHandle]

(***************************************************************************)
(* Materialization of a Jacobian or of a linear operator's matrix          *)
(* (src/src/op/mod.rs:104-114 and 149-159, src/src/op/closure.rs:99-106).  *)
(* The operator is [kind, nstates, nout, J, coloring, sparsity, asked]: J  *)
(* is the nout x nstates matrix that its Jacobian action (for a linear     *)
(* operator: its call) applies, coloring and sparsity tell whether the     *)
(* Closure's fields are Some, asked whether calculate_sparsity was called. *)
(***************************************************************************)
\* the entries of J range over 0 .. MaxJac
MaxJac == 1
\* what the matrix handed to jacobian_inplace holds before the call
StaleEntry == 9

\* V::zeros(n)
VZeros(n) == [i \in 0..(n - 1) |-> 0]
\* sum over j < n of A[i][j] * x[j]
RECURSIVE RowDot(_, _, _, _)
RowDot(A, x, i, n) == IF n = 0 THEN 0 ELSE RowDot(A, x, i, n - 1) + A[<<i, n - 1>>] * x[n - 1]
\* the Jacobian action (closure jacobian_action, or call_inplace of a linear
\* operator, which is gemv_inplace with beta = 0): col <- J * v
JacAction(op, v) ==
    [i \in 0..(op.nout - 1) |-> RowDot(op.J, v, i, op.nstates)]
\* Matrix::set_column
SetColumn(y, j, col) ==
    [ij \in DOMAIN y |-> IF ij[2] = j THEN col[ij[1]] ELSE y[ij]]

\* one turn of the loop without line 112 (157)
DefaultColumn_NoRestore(op, L, j) ==
    LET v == [L.v EXCEPT ![j] = 1]
        col == JacAction(op, v)
    IN  [v |-> v, col |-> col, y |-> SetColumn(L.y, j, col),
         probes |-> Append(L.probes, v)]
\* one turn of the loop, op/mod.rs:109-112 (154-157), on the locals
\* L = [v, col, y, probes]; probes lists the vectors handed to the action
DefaultColumn(op, L, j) ==
    LET v == [L.v EXCEPT ![j] = 1]
        col == JacAction(op, v)
    IN  [v |-> [v EXCEPT ![j] = 0], col |-> col, y |-> SetColumn(L.y, j, col),
         probes |-> Append(L.probes, v)]
RECURSIVE DefaultColumnsFrom(_, _, _)
DefaultColumnsFrom(op, L, j) ==
    IF j = op.nstates THEN L
    ELSE DefaultColumnsFrom(op, DefaultColumn(op, L, j), j + 1)
\* NonLinearOp::_default_jacobian_inplace, op/mod.rs:105-114, and
\* LinearOp::_default_matrix_inplace, op/mod.rs:150-159
DefaultJacobianInplace(op, y) ==
    LET L == DefaultColumnsFrom(op, [v |-> VZeros(op.nstates), col |-> VZeros(op.nout),
                                     y |-> y, probes |-> <<>>], 0)
    IN  [path |-> "default", probes |-> L.probes, y |-> L.y, v |-> L.v]
\* JacobianColoring::jacobian_inplace (spec 4.3): the matrix is filled from
\* one Jacobian action per color; the probes are not modelled
ColoringJacobianInplace(op, y) ==
    [path |-> "coloring", probes |-> <<>>, y |-> op.J, v |-> VZeros(op.nstates)]

JacOps ==
    UNION {UNION {
        [kind : {"closure", "linear"}, nstates : {ns}, nout : {no},
         J : [(0..(no - 1)) \X (0..(ns - 1)) -> 0..MaxJac],
         coloring : {FALSE}, sparsity : {FALSE}, asked : {FALSE}]
            : ns \in 1..MaxNStates} : no \in 1..MaxNStates}

\* Closure::new, closure.rs:34-47 (coloring and sparsity are None), or a
\* linear operator
JacInit ==
    /\ jac_op \in JacOps
    /\ jac_run = None

\* Closure::calculate_sparsity, closure.rs:49-56
JacCalculateSparsity ==
    /\ jac_op.kind = "closure"
    /\ jac_op' = [jac_op EXCEPT !.sparsity = TRUE, !.coloring = TRUE, !.asked = TRUE]
    /\ UNCHANGED jac_run
\* Closure::jacobian_inplace, closure.rs:99-106, on a matrix of stale entries
JacJacobianInplace ==
    /\ jac_op.kind = "closure"
    /\ LET y == [ij \in DOMAIN jac_op.J |-> StaleEntry]
       IN  jac_run' = Some([run |-> IF jac_op.coloring
                                    THEN ColoringJacobianInplace(jac_op, y)
                                    ELSE DefaultJacobianInplace(jac_op, y),
                            asked |-> jac_op.asked])
    /\ UNCHANGED jac_op
\* LinearOp::matrix_inplace, op/mod.rs:145-147, on a matrix of stale entries
JacMatrixInplace ==
    /\ jac_op.kind = "linear"
    /\ LET y == [ij \in DOMAIN jac_op.J |-> StaleEntry]
       IN  jac_run' = Some([run |-> DefaultJacobianInplace(jac_op, y),
                            asked |-> jac_op.asked])
    /\ UNCHANGED jac_op

JacIdle ==
    /\ jac_op = [kind |-> "closure", nstates |-> 1, nout |-> 1,
                 J |-> [ij \in {<<0, 0>>} |-> 0],
                 coloring |-> FALSE, sparsity |-> FALSE, asked |-> FALSE]
    /\ jac_run = None

(***************************************************************************)
(* OdeSolverSolution::push (src/src/ode_solver/problem.rs:62-74).  A point *)
(* is [state, t]; times are integers.                                      *)
(***************************************************************************)
\* a solution holds at most MaxPoints points
MaxPoints == 3
\* the times pushed range over 0 .. MaxTime
MaxTime == 2
\* the states pushed are 1 .. MaxPayload
MaxPayload == 2

\* position(|x| x.t >= t): the point goes before the stored points with its t
RECURSIVE Position_GreaterOrEqual(_, _, _)
Position_GreaterOrEqual(points, t, i) ==
    IF i = Len(points) THEN None
    ELSE IF points[i + 1].t >= t THEN Some(i)
    ELSE Position_GreaterOrEqual(points, t, i + 1)
\* iter().position(|x| x.t > t), problem.rs:65-68, searching from index i:
\* the index (from 0) of the first point with a greater t, if there is one
RECURSIVE Position(_, _, _)
Position(points, t, i) ==
    IF i = Len(points) THEN None
    ELSE IF points[i + 1].t > t THEN Some(i)
    ELSE Position(points, t, i + 1)
\* Vec::insert(index, element)
VecInsert(v, index, e) ==
    SubSeq(v, 1, index) \o <<e>> \o SubSeq(v, index + 1, Len(v))
\* OdeSolverSolution::push, problem.rs:63-73: the points after it
PushOn(points, state, t) ==
    LET found == Position(points, t, 0)
        index == IF IsSome(found) THEN Unwrap(found) ELSE Len(points)
    IN  VecInsert(points, index, [state |-> state, t |-> t])

\* impl Default for OdeSolverSolution, problem.rs:76-82
SolInit ==
    /\ solution_points = <<>>
    /\ push_last = None

Push(state, t) ==
    /\ Len(solution_points) < MaxPoints
    /\ solution_points' = PushOn(solution_points, state, t)
    /\ push_last' = Some([state |-> state, t |-> t, before |-> solution_points])

SolIdle ==
    /\ solution_points = <<>>
    /\ push_last = None

(***************************************************************************)
(* A Closure read through a shared reference (src/src/op/mod.rs:175-188).  *)
(***************************************************************************)
\* Op::sparsity, op/mod.rs:34-36, the default that impl Op for &C inherits
OpDefaultSparsity == None
\* Op::statistics, op/mod.rs:39-41, the default that impl Op for &C inherits
OpDefaultStatistics == OpStatisticsDefault
\* impl Op for &C, op/mod.rs:175-188: nstates, nout and nparams are
\* forwarded to C; sparsity and statistics are not overridden
RefOp ==
    [nstates |-> closure.nstates, nout |-> closure.nout, nparams |-> closure.nparams,
     statistics |-> OpDefaultStatistics, sparsity |-> OpDefaultSparsity]
\* impl Op for Closure, closure.rs:68-82
ClosureOp ==
    [nstates |-> closure.nstates, nout |-> closure.nout, nparams |-> closure.nparams,
     statistics |-> statistics, sparsity |-> sparsity]

\* the five methods of Op are called on &C and on C
ReadThroughRef ==
    /\ ref_view' = Some([through_ref |-> RefOp, direct |-> ClosureOp])
    /\ UNCHANGED opVars

RefInit == ref_view = None
RefIdle == ref_view = None

(***************************************************************************)
(* The allocating methods of an operator (src/src/op/mod.rs:84-96,         *)
(* 116-122, 137-142).  A vector is [len, at], a matrix [nrows, ncols, at]. *)
(* The operator is jac_op; its function is x |-> J * x.  The user's        *)
(* closures write their nout results into the vector they are handed,      *)
(* entry by entry, and an index past its end panics.                       *)
(***************************************************************************)
\* the entries of x and v range over 0 .. MaxAllocX
MaxAllocX == 1

\* V::zeros(n)
AllocVZeros(n) == [len |-> n, at |-> VZeros(n)]
\* M::new_from_sparsity(nrows, ncols, sparsity), sundials.rs:314-320 and
\* dense_nalgebra_serial.rs:144-150: a dense nrows x ncols matrix of zeros
NewFromSparsity(nrows, ncols) ==
    [nrows |-> nrows, ncols |-> ncols,
     at |-> [ij \in (0..(nrows - 1)) \X (0..(ncols - 1)) |-> 0]]
\* call_inplace / jac_mul_inplace of the operator on y: Some(y) with the
\* nout results written, None when that indexes past the end of y
WriteResults(op, arg, y) ==
    IF op.nout > y.len THEN None
    ELSE Some([y EXCEPT !.at = [i \in 0..(y.len - 1) |->
                  IF i < op.nout THEN JacAction(op, arg)[i] ELSE y.at[i]]])
\* Matrix::set_column, sundials.rs:259-267 (the nalgebra copy_from of
\* dense_nalgebra_serial.rs:136-138 asserts the same): it panics unless the
\* column has as many entries as the matrix has rows
SetColumnPanics(y, col_len) == col_len # y.nrows
\* _default_jacobian_inplace / _default_matrix_inplace on the allocated y:
\* None when set_column panics in the first turn of the loop
DefaultInplaceOn(op, y) ==
    IF SetColumnPanics(y, op.nout) THEN None
    ELSE Some([y EXCEPT !.at = DefaultJacobianInplace(op, y.at).y])

\* NonLinearOp::call, op/mod.rs:85-89
OpCall(op, x) == WriteResults(op, x, AllocVZeros(op.nout))
\* NonLinearOp::jac_mul, op/mod.rs:92-96
OpJacMul(op, x, v) == WriteResults(op, v, AllocVZeros(op.nstates))
\* NonLinearOp::jacobian, op/mod.rs:117-122
OpJacobian(op, x) == DefaultInplaceOn(op, NewFromSparsity(op.nstates, op.nstates))
\* LinearOp::matrix, op/mod.rs:138-142
OpMatrix(op) == DefaultInplaceOn(op, NewFromSparsity(op.nstates, op.nstates))

AllocInputs(n) == [0..(n - 1) -> 0..MaxAllocX]

AllocInit == alloc_out = None
AllocIdle == alloc_out = None

AllocCall(x) ==
    /\ jac_op.kind = "closure"
    /\ alloc_out' = Some([method |-> "call", ret |-> OpCall(jac_op, x)])
AllocJacMul(x, v) ==
    /\ jac_op.kind = "closure"
    /\ alloc_out' = Some([method |-> "jac_mul", ret |-> OpJacMul(jac_op, x, v)])
AllocJacobian(x) ==
    /\ jac_op.kind = "closure"
    /\ alloc_out' = Some([method |-> "jacobian", ret |-> OpJacobian(jac_op, x)])
AllocMatrix ==
    /\ jac_op.kind = "linear"
    /\ alloc_out' = Some([method |-> "matrix", ret |-> OpMatrix(jac_op)])

(***************************************************************************)
(* The components a specification does not exercise stay as constructed.   *)
(***************************************************************************)
\* every component added after the first four as constructed, but for
\* component c, which is about to be used
RestIdleBut(c) ==
    /\ IF c = "gemv" THEN GemvInit ELSE GemvIdle
    /\ IF c = "ode" THEN OdeInit ELSE OdeIdle
    /\ IF c = "sun" THEN SunInit ELSE SunIdle
    /\ IF c \in {"jac", "alloc"} THEN JacInit ELSE JacIdle
    /\ IF c = "sol" THEN SolInit ELSE SolIdle
    /\ IF c = "ref" THEN RefInit ELSE RefIdle
    /\ IF c = "alloc" THEN AllocInit ELSE AllocIdle
RestIdle == RestIdleBut("none")
ConvIdle ==
    /\ rtol = F64One
    /\ atol = F64One
    /\ max_iter = 1
    /\ tol \in ConvergenceTol(rtol)
    /\ scale = None
    /\ old_norm = None
    /\ iter = 0
    /\ status = "NoCall"
    /\ call = None
    /\ reset_called = FALSE
    /\ checks_since_reset = 0
    /\ all_continue = TRUE
    /\ reset_call = None
OpIdle ==
    /\ closure = [nstates |-> 1, nout |-> 1, nparams |-> 0]
    /\ statistics = OpStatisticsDefault
    /\ coloring = None
    /\ sparsity = None
    /\ evals = NoEvals
    /\ op_last = None
ProbIdle ==
    /\ holders = [h \in Slots |-> IF h = 1 THEN "problem" ELSE "none"]
    /\ eqn_p = 0
    /\ set_params_call = None
TriIdle ==
    /\ tri_in = None
    /\ tri_out = None
    /\ tri_round = None

(***************************************************************************)
(* The convergence test under every sequence of calls.                     *)
(***************************************************************************)
ConvNext ==
    \/ \E y \in YVals : Reset(y) /\ UNCHANGED <<opVars, probVars, triVars, restVars>>
    \/ \E dy \in DyVals : CheckNewIteration(dy) /\ UNCHANGED <<opVars, probVars, triVars, restVars>>

ConvSpecInit == ConvInit /\ OpIdle /\ ProbIdle /\ TriIdle /\ RestIdle
ConvSpec == ConvSpecInit /\ [][ConvNext]_vars

(***************************************************************************)
(* The last call of check_new_iteration, as its caller sees it.            *)
(***************************************************************************)
Checked == IsSome(call) /\ IsSome(scale)
\* n_k: the norm of the scaled step the call leaves in dy
ObsNorm == Norm[Unwrap(call).dy_out]
\* an old_norm was recorded when the call was made
HadOldNorm == IsSome(Unwrap(call).old_norm)
ObsOldNorm == Unwrap(Unwrap(call).old_norm)
\* rate = n_k / old_norm
ObsRate == F64Div[ObsNorm, ObsOldNorm]
\* rate / (1 - rate) * n_k < tol
ObsRateTest == F64Lt[F64Mul[F64Div[ObsRate, F64Sub[F64One, ObsRate]], ObsNorm], tol]
\* rate^e / (1 - rate) * n_k > tol
ObsProjectedTest(e) ==
    F64Gt[F64Mul[F64Div[F64Powi[ObsRate, e], F64Sub[F64One, ObsRate]], ObsNorm], tol]

\* C1: on a check with a recorded old_norm and n_k > epsilon, rate >= 1
\* (rate = 1 included) gives Diverged.
C1_RateAtLeastOneDiverged ==
    (Checked /\ HadOldNorm /\ F64Gt[ObsNorm, EPSILON] /\ F64Ge[ObsRate, F64One])
        => status = "Diverged"

\* C2: a scaled norm <= epsilon gives Converged, whatever old_norm, the rate
\* and iter are.
C2_ZeroNormConverged ==
    (Checked /\ F64Le[ObsNorm, EPSILON]) => status = "Converged"
C2_Witness ==
    /\ Checked /\ F64Le[ObsNorm, EPSILON]
    /\ HadOldNorm
    /\ Unwrap(call).iter >= max_iter
    /\ status = "Converged"

\* C3: with a recorded old_norm, n_k > epsilon and rate < 1, the test
\* rate/(1 - rate) * n_k < tol gives Converged, also when the projected-failure
\* test holds as well.
C3_RateTestConverged ==
    (Checked /\ HadOldNorm /\ F64Gt[ObsNorm, EPSILON] /\ F64Lt[ObsRate, F64One]
        /\ ObsRateTest)
        => status = "Converged"
C3_Witness ==
    /\ Checked /\ HadOldNorm /\ F64Gt[ObsNorm, EPSILON] /\ F64Lt[ObsRate, F64One]
    /\ ObsRateTest
    /\ Unwrap(call).iter <= max_iter
    /\ ObsProjectedTest(max_iter - Unwrap(call).iter)
    /\ status = "Converged"

\* C4: on the k-th check of a solve (k >= 1 earlier checks, all Continue) with
\* n_k > epsilon, rate < 1 and the rate test not satisfied, the status is
\* Diverged exactly when rate^(max_iter - k)/(1 - rate) * n_k > tol, and the
\* code's exponent max_iter - iter is max_iter - k.
C4_ProjectedFailure ==
    (Checked /\ Unwrap(call).in_solve /\ Unwrap(call).k >= 1
        /\ F64Gt[ObsNorm, EPSILON] /\ F64Lt[ObsRate, F64One] /\ ~ObsRateTest)
        => /\ Unwrap(call).iter = Unwrap(call).k
           /\ Unwrap(call).k <= max_iter
           /\ (status = "Diverged") <=> ObsProjectedTest(max_iter - Unwrap(call).k)
C4_Witness ==
    /\ Checked /\ Unwrap(call).in_solve /\ Unwrap(call).k >= 2
    /\ F64Gt[ObsNorm, EPSILON] /\ F64Lt[ObsRate, F64One] /\ ~ObsRateTest
    /\ status = "Diverged"
C4_WitnessNot ==
    /\ Checked /\ Unwrap(call).in_solve /\ Unwrap(call).k >= 1
    /\ F64Gt[ObsNorm, EPSILON] /\ F64Lt[ObsRate, F64One] /\ ~ObsRateTest
    /\ status = "Continue"

\* C5: a call that returns Continue or MaximumIterations has added one to iter
\* and recorded the scaled norm as old_norm; it returns MaximumIterations iff
\* the new iter is >= max_iter.
C5_AdvanceRecords ==
    (Checked /\ status \in {"Continue", "MaximumIterations"})
        => /\ iter = Unwrap(call).iter + 1
           /\ old_norm = Some(ObsNorm)
           /\ (status = "MaximumIterations") <=> (iter >= max_iter)
C5_Witness ==
    /\ Checked /\ status = "MaximumIterations"
    /\ HadOldNorm
    /\ iter = Unwrap(call).iter + 1
    /\ iter = max_iter

\* C6: a check on an object that was never reset panics and returns no status;
\* once reset has been called, no call takes that panic.
C6_PanicIffNeverReset ==
    /\ (IsSome(call) /\ ~reset_called) => status = "PanicNotReset"
    /\ reset_called => status # "PanicNotReset"
C6_Witness ==
    IsSome(call) /\ ~reset_called /\ status = "PanicNotReset"

\* C7: with max_iter >= 1, a solve (reset, then checks until the first status
\* other than Continue) makes at most max_iter checks: a check of a solve is
\* at most the max_iter-th, and the max_iter-th does not return Continue.
C7_AtMostMaxIterChecks ==
    (max_iter >= 1 /\ IsSome(call) /\ Unwrap(call).in_solve)
        => /\ Unwrap(call).k + 1 <= max_iter
           /\ Unwrap(call).k + 1 = max_iter => status \in Statuses \ {"Continue"}
C7_Witness ==
    /\ max_iter >= 2 /\ IsSome(call) /\ Unwrap(call).in_solve
    /\ Unwrap(call).k + 1 = max_iter
    /\ status = "MaximumIterations"

(***************************************************************************)
(* The other specifications.                                               *)
(***************************************************************************)
OpSpecInit == ConvIdle /\ OpInit /\ ProbIdle /\ TriIdle /\ RestIdle
OpSpec == OpSpecInit /\ [][OpNext]_vars
ProbSpecInit == ConvIdle /\ OpIdle /\ ProbInit /\ TriIdle /\ RestIdle
ProbSpec == ProbSpecInit /\ [][ProbNext]_vars
TriSpecInit == ConvIdle /\ OpIdle /\ ProbIdle /\ TriInit /\ RestIdle
TriSpec == TriSpecInit /\ [][TriNext]_vars

\* the four first components as constructed and left alone
FirstIdle == ConvIdle /\ OpIdle /\ ProbIdle /\ TriIdle

GemvNext ==
    \/ GemvSundials /\ UNCHANGED gemvOthers
    \/ GemvNalgebra /\ UNCHANGED gemvOthers
GemvSpecInit == FirstIdle /\ RestIdleBut("gemv")
GemvSpec == GemvSpecInit /\ [][GemvNext]_vars

OdeNext ==
    \/ SolveStart /\ UNCHANGED odeOthers
    \/ \E r \in RootOutcomes(Unwrap(ode_in).problem.n) :
           ConsistentStart(r) /\ UNCHANGED odeOthers
    \/ \E ok \in BOOLEAN, dt \in 1..MaxDt :
           LoopStep(ok, dt) /\ UNCHANGED odeOthers
    \/ \E ok \in BOOLEAN : Interpolate(ok) /\ UNCHANGED odeOthers
OdeSpecInit == FirstIdle /\ RestIdleBut("ode")
OdeSpec == OdeSpecInit /\ [][OdeNext]_vars

SunNext ==
    \/ \E w \in WrapperSlots : SunNewDense(w) /\ UNCHANGED sunOthers
    \/ \E w \in WrapperSlots :
           SunTryFromTripletsErr(w) /\ UNCHANGED sunOthers
    \/ \E w \in WrapperSlots, h \in HandleIds :
           SunNewNotOwned(w, h) /\ UNCHANGED sunOthers
    \/ \E src, w \in WrapperSlots, copied \in BOOLEAN :
           SunClone(src, w, copied) /\ UNCHANGED sunOthers
    \/ \E a, w \in WrapperSlots, added \in BOOLEAN :
           SunOpOwned(a, w, added) /\ UNCHANGED sunOthers
    \/ \E a, b \in WrapperSlots, added \in BOOLEAN :
           SunOpOwnedOwned(a, b, added) /\ UNCHANGED sunOthers
    \/ \E w \in WrapperSlots : SunDrop(w) /\ UNCHANGED sunOthers
SunSpecInit == FirstIdle /\ RestIdleBut("sun")
SunSpec == SunSpecInit /\ [][SunNext]_vars

JacNext ==
    \/ JacCalculateSparsity /\ UNCHANGED jacOthers
    \/ JacJacobianInplace /\ UNCHANGED jacOthers
    \/ JacMatrixInplace /\ UNCHANGED jacOthers
JacSpecInit == FirstIdle /\ RestIdleBut("jac")
JacSpec == JacSpecInit /\ [][JacNext]_vars

SolNext ==
    \E state \in 1..MaxPayload, t \in 0..MaxTime : Push(state, t) /\ UNCHANGED solOthers
SolSpecInit == FirstIdle /\ RestIdleBut("sol")
SolSpec == SolSpecInit /\ [][SolNext]_vars

\* a Closure that is used (through a reference or not: impl NonLinearOp for
\* &C, op/mod.rs:206-216, forwards every call to C) and read through &C
RefNext ==
    \/ OpNext
    \/ ReadThroughRef /\ UNCHANGED refOthers
RefSpecInit == ConvIdle /\ OpInit /\ ProbIdle /\ TriIdle /\ RestIdleBut("ref")
RefSpec == RefSpecInit /\ [][RefNext]_vars

\* an operator as constructed, and its allocating methods
AllocNext ==
    \/ \E x \in AllocInputs(jac_op.nstates) : AllocCall(x) /\ UNCHANGED allocOthers
    \/ \E x, v \in AllocInputs(jac_op.nstates) : AllocJacMul(x, v) /\ UNCHANGED allocOthers
    \/ \E x \in AllocInputs(jac_op.nstates) : AllocJacobian(x) /\ UNCHANGED allocOthers
    \/ AllocMatrix /\ UNCHANGED allocOthers
AllocSpecInit == FirstIdle /\ RestIdleBut("alloc")
AllocSpec == AllocSpecInit /\ [][AllocNext]_vars

\* C8: the statistics of a Closure count the residual evaluations, the
\* Jacobian-action evaluations (those made inside jacobian_inplace and
\* calculate_sparsity too) and the calls of jacobian_inplace; each operation
\* adds one to its own counter, no counter decreases, and after N solves
\* number_of_calls >= N.
C8_StatisticsCount ==
    /\ statistics.number_of_calls = evals.func
    /\ statistics.number_of_jac_muls = evals.jacobian_action
    /\ statistics.number_of_matrix_evals = evals.jacobian_inplace
    /\ statistics.number_of_calls >= evals.solves
    /\ IsSome(op_last) =>
         LET b == Unwrap(op_last).before
             o == Unwrap(op_last).op
         IN  /\ statistics.number_of_calls >= b.number_of_calls
             /\ statistics.number_of_jac_muls >= b.number_of_jac_muls
             /\ statistics.number_of_matrix_evals >= b.number_of_matrix_evals
             /\ o = "call_inplace" => statistics = IncrementCall(b)
             /\ o = "jac_mul_inplace" => statistics = IncrementJacMul(b)
             /\ o = "jacobian_inplace" =>
                  /\ statistics.number_of_matrix_evals = b.number_of_matrix_evals + 1
                  /\ statistics.number_of_calls = b.number_of_calls
             /\ o = "calculate_sparsity" =>
                  /\ statistics.number_of_matrix_evals = b.number_of_matrix_evals
                  /\ statistics.number_of_calls = b.number_of_calls
C8_Witness ==
    /\ evals.solves >= 2
    /\ statistics.number_of_calls >= 2
    /\ IsSome(coloring)
    /\ IsSome(op_last) /\ Unwrap(op_last).op = "jacobian_inplace"
    /\ statistics.number_of_matrix_evals = 2
    /\ statistics.number_of_jac_muls = evals.jacobian_action
    /\ statistics.number_of_jac_muls > statistics.number_of_matrix_evals

\* C9: set_params rebinds the parameters and returns Ok exactly when no other
\* holder of the equations is alive; otherwise it returns an error and leaves
\* the parameters as they were; it succeeds again once the others are dropped.
C9_SetParamsExclusive ==
    IsSome(set_params_call) =>
        LET c == Unwrap(set_params_call)
        IN  /\ (c.result = "Ok") <=> (c.others = 0)
            /\ c.result = "Ok" => eqn_p = c.p
            /\ c.result = "Err" => eqn_p = c.p_before
C9_Witness ==
    /\ IsSome(set_params_call)
    /\ Unwrap(set_params_call).result = "Ok"
    /\ Unwrap(set_params_call).after_err
    /\ Unwrap(set_params_call).p # Unwrap(set_params_call).p_before
    /\ eqn_p = Unwrap(set_params_call).p
C9_WitnessErr ==
    /\ IsSome(set_params_call)
    /\ Unwrap(set_params_call).result = "Err"
    /\ Unwrap(set_params_call).p # eqn_p

\* some triplet of the call names a row >= nrows or a column >= ncols
OutOfRange ==
    LET c == Unwrap(tri_in)
    IN  \E k \in 1..Len(c.triplets) :
            c.triplets[k][1] >= c.nrows \/ c.triplets[k][2] >= c.ncols

\* C10: for both dense backends try_from_triplets returns an error value,
\* without a panic and without a matrix, when some triplet is out of range.
C10_OutOfRangeIsError ==
    (IsSome(tri_out) /\ OutOfRange)
        => Unwrap(tri_out).kind = "Err" /\ IsNone(Unwrap(tri_out).m)

\* every triplet of the call is inside the matrix
InRange == ~OutOfRange
\* the triplets of the call that name position ij, in the order given
NamedBy(ij) ==
    LET c == Unwrap(tri_in)
    IN  {k \in 1..Len(c.triplets) : <<c.triplets[k][1], c.triplets[k][2]>> = ij}
Max(S) == CHOOSE x \in S : \A y \in S : y <= x
\* the matrix the claim describes: the last triplet naming a position gives
\* its value, a position not named is zero
LastWins ==
    LET c == Unwrap(tri_in)
    IN  [ij \in (0..(c.nrows - 1)) \X (0..(c.ncols - 1)) |->
            IF NamedBy(ij) = {} THEN 0 ELSE c.triplets[Max(NamedBy(ij))][3]]

\* C11: for both dense backends try_from_triplets with every triplet in range
\* returns the nrows x ncols matrix whose entry (i, j) is the value of the
\* last triplet naming (i, j) and zero where no triplet names it; the matrix
\* rebuilt from the list of its own entries equals it.
C11_LastWinsRoundTrip ==
    /\ (IsSome(tri_out) /\ InRange)
           => Unwrap(tri_out) = Outcome("Ok", Some(LastWins))
    /\ IsSome(tri_round) => tri_round = tri_out
C11_Witness ==
    /\ IsSome(tri_out) /\ InRange
    /\ \E ij \in DOMAIN LastWins :
           /\ Cardinality(NamedBy(ij)) >= 2
           /\ \E k \in NamedBy(ij) : Unwrap(tri_in).triplets[k][3] # LastWins[ij]
    /\ \E ij \in DOMAIN LastWins : NamedBy(ij) = {}
    /\ Unwrap(tri_out) = Outcome("Ok", Some(LastWins))
    /\ IsSome(tri_round) /\ tri_round = tri_out

\* sum over j < n of A[i][j] * x[j], added in the order of j
RECURSIVE GemvRowDot(_, _, _, _)
GemvRowDot(A, x, i, n) ==
    IF n = 0 THEN F64Zero(0)
    ELSE IF n = 1 THEN F64Mul[A[<<i, 0>>], x[0]]
    ELSE F64Add[GemvRowDot(A, x, i, n - 1), F64Mul[A[<<i, n - 1>>], x[n - 1]]]
\* alpha * sum_j A[i][j] * x[j] + beta * y_old[i] for the arguments of the
\* call, each operation rounded to f64
GemvExpected ==
    LET c == Unwrap(gemv_in)
    IN  [i \in 0..(c.nrows - 1) |->
            F64Add[F64Mul[c.alpha, GemvRowDot(c.A, c.x, i, c.ncols)], F64Mul[c.beta, c.y[i]]]]
\* two f64 are the same output: both NaN, or equal as numbers
SameF64(a, b) ==
    IF F64IsNaN(a) \/ F64IsNaN(b) THEN F64IsNaN(a) /\ F64IsNaN(b) ELSE F64Cmp(a, b) = 0
SameVector(u, v) == DOMAIN u = DOMAIN v /\ \A i \in DOMAIN u : SameF64(u[i], v[i])

\* C12: gemv(alpha, x, beta, y) of either dense backend leaves A and x as they
\* were and sets y[i] to alpha * sum_j A[i][j] * x[j] + beta * y_old[i]; the
\* two backends leave the same y.
C12_GemvAgree ==
    /\ \A b \in {"sundials", "nalgebra"} :
           IsSome(gemv_out[b]) =>
               /\ Unwrap(gemv_out[b]).A = Unwrap(gemv_in).A
               /\ Unwrap(gemv_out[b]).x = Unwrap(gemv_in).x
               /\ SameVector(Unwrap(gemv_out[b]).y, GemvExpected)
    /\ (IsSome(gemv_out.sundials) /\ IsSome(gemv_out.nalgebra))
           => SameVector(Unwrap(gemv_out.sundials).y, Unwrap(gemv_out.nalgebra).y)
\* A = [[1, 1]], x = (2^-53, 2^-53), alpha = beta = 1, y = (1): the sundials
\* backend leaves y = (1 + 2^-52), the nalgebra backend y = (1)
C12_Witness ==
    /\ IsSome(gemv_in)
    /\ LET c == Unwrap(gemv_in)
       IN  /\ c.nrows = 1 /\ c.ncols = 2
           /\ c.A = (<<0, 0>> :> F64One) @@ (<<0, 1>> :> F64One)
           /\ c.x = (0 :> HalfUlp) @@ (1 :> HalfUlp)
           /\ c.y = (0 :> F64One)
           /\ c.alpha = F64One /\ c.beta = F64One
    /\ IsSome(gemv_out.sundials) /\ IsSome(gemv_out.nalgebra)
    /\ Unwrap(gemv_out.sundials).y = (0 :> F64Add[F64One, EPSILON])
    /\ Unwrap(gemv_out.nalgebra).y = (0 :> F64One)

(***************************************************************************)
(* The last call of new_consistent and the run of solve, as seen from      *)
(* outside.                                                                *)
(***************************************************************************)
OdeProblem == Unwrap(ode_in).problem
\* the algebraic positions: the mass diagonal is exactly zero there
Algebraic == {i \in 0..(OdeProblem.n - 1) : OdeProblem.mass[i] = 0}

\* C13: new_consistent changes the initial vector only at the algebraic
\* positions: a differential position holds init(t0), the k-th algebraic
\* position (ascending) holds the k-th value of the root solver, t = t0 and
\* h = h0; with no algebraic position the root solver is not touched and the
\* result is that of OdeSolverState::new.
C13_NewConsistentFrame ==
    IsSome(nc_out) =>
        LET o == Unwrap(nc_out)
        IN  /\ o.kind = "Ok" =>
                  LET st == Unwrap(o.state)
                  IN  /\ \A i \in 0..(OdeProblem.n - 1) :
                             st.y[i] = IF i \in Algebraic
                                       THEN o.vals[Cardinality({j \in Algebraic : j < i}) + 1]
                                       ELSE EqnInit(OdeProblem, OdeProblem.t0)[i]
                      /\ st.t = OdeProblem.t0
                      /\ st.h = OdeProblem.h0
            /\ Algebraic = {} =>
                  /\ o.root_after = o.root_before
                  /\ o.kind = "Ok"
                  /\ Unwrap(o.state) = OdeSolverStateNew(OdeProblem)
\* two algebraic positions with a differential one between them, and the
\* root solver left two different values
C13_Witness ==
    /\ IsSome(nc_out) /\ Unwrap(nc_out).kind = "Ok"
    /\ OdeProblem.n = 3 /\ Algebraic = {0, 2}
    /\ Unwrap(nc_out).vals[1] # Unwrap(nc_out).vals[2]
    /\ Unwrap(Unwrap(nc_out).state).y[0] = Unwrap(nc_out).vals[1]
    /\ Unwrap(Unwrap(nc_out).state).y[1] = EqnInit(OdeProblem, OdeProblem.t0)[1]
    /\ Unwrap(Unwrap(nc_out).state).y[2] = Unwrap(nc_out).vals[2]
C13_WitnessNoAlgebraic ==
    /\ IsSome(nc_out) /\ Algebraic = {}
    /\ Unwrap(nc_out).root_after = NoRootCalls
    /\ Unwrap(Unwrap(nc_out).state) = OdeSolverStateNew(OdeProblem)

\* C14: the first failure is what the call returns and no call is made after
\* it: when the root solver fails, new_consistent returns the error with no
\* state, and make_consistent_and_solve returns it with no call of
\* set_problem, step or interpolate and the solver's problem and state as
\* they were; when a step fails, the call returns the error with no further
\* step and no interpolate.
C14_FirstFailureReturned ==
    /\ IsSome(ode_in) => ode_calls.after_failure = 0
    /\ (IsSome(nc_out) /\ Unwrap(nc_out).kind = "Err") =>
           /\ IsNone(Unwrap(nc_out).state)
           /\ ode_ret = Some([kind |-> "Err", from |-> "new_consistent"])
           /\ ode_pc = "done"
           /\ ode_calls = NoOdeCalls
           /\ solver = Unwrap(ode_in).solver0
    /\ (Failed /\ Unwrap(ode_ret).from = "step") =>
           /\ ode_pc = "done"
           /\ ode_calls.interpolate = 0
           /\ interp = None
C14_Witness ==
    /\ IsSome(nc_out) /\ Unwrap(nc_out).kind = "Err"
    /\ Unwrap(ode_in).solver0 = SolverUsed
    /\ solver = SolverUsed
    /\ ode_ret = Some([kind |-> "Err", from |-> "new_consistent"])
    /\ ode_calls = NoOdeCalls
C14_WitnessStep ==
    /\ Failed /\ Unwrap(ode_ret).from = "step"
    /\ ode_calls.step >= 2
    /\ ode_calls.interpolate = 0

\* C15: whenever solve or make_consistent_and_solve calls interpolate(t), a
\* step has been taken since set_problem and t is inside the last step:
\* t_before_last_step <= t < state.t.
C15_InterpolateInsideLastStep ==
    IsSome(interp) =>
        LET c == Unwrap(interp)
        IN  /\ c.steps >= 1
            /\ IsSome(c.t_before)
            /\ Unwrap(c.t_before) <= c.t
            /\ c.t < c.state_t

\* the live wrappers that own handle h
Owners(h) == {w \in WrapperSlots : IsSome(wrappers[w]) /\ Unwrap(wrappers[w]).sm = h
                                     /\ Unwrap(wrappers[w]).owned}

\* C16: no native matrix is destroyed twice; a matrix made by an owning
\* constructor has one owner, is not destroyed while its wrapper lives and is
\* destroyed once its wrapper is gone; a matrix that only new_not_owned
\* wrappers ever held is never destroyed by them.
C16_HandlesDestroyedOnce ==
    \A h \in HandleIds :
        /\ handles[h].destroyed <= 1
        /\ handles[h].made = "constructor" =>
               /\ Cardinality(Owners(h)) <= 1
               /\ Owners(h) # {} => handles[h].destroyed = 0
               /\ Owners(h) = {} => handles[h].destroyed = 1
        /\ handles[h].made = "external" => handles[h].destroyed = 0
        /\ handles[h].made = "free" => Owners(h) = {}
\* one matrix was destroyed when its owner was dropped while a not-owned
\* wrapper of it is still there, another one is alive with its owner
C16_Witness ==
    \E h, g \in HandleIds, w, v \in WrapperSlots :
        /\ h # g /\ w # v
        /\ handles[h].made = "constructor" /\ handles[h].destroyed = 1
        /\ wrappers[w] = Some([sm |-> h, owned |-> FALSE])
        /\ handles[g].made = "constructor" /\ handles[g].destroyed = 0
        /\ wrappers[v] = Some([sm |-> g, owned |-> TRUE])

\* the j-th standard basis vector of length n
Basis(n, j) == [i \in 0..(n - 1) |-> IF i = j THEN 1 ELSE 0]

\* C17: without a coloring the materialization invokes the action nstates
\* times, the j-th time (j = 0 .. nstates-1, ascending) with the probe e_j,
\* leaves the probe all-zero, and column j of the matrix is J applied to e_j;
\* a Closure takes the coloring path exactly when calculate_sparsity has been
\* called, and its sparsity is set iff its coloring is.
C17_DefaultJacobianColumns ==
    /\ jac_op.coloring <=> jac_op.sparsity
    /\ jac_op.coloring <=> jac_op.asked
    /\ IsSome(jac_run) =>
           LET r == Unwrap(jac_run).run
           IN  /\ (r.path = "coloring") <=>
                      (jac_op.kind = "closure" /\ Unwrap(jac_run).asked)
               /\ r.path = "default" =>
                      /\ Len(r.probes) = jac_op.nstates
                      /\ \A j \in 0..(jac_op.nstates - 1) :
                             /\ r.probes[j + 1] = Basis(jac_op.nstates, j)
                             /\ \A i \in 0..(jac_op.nout - 1) :
                                    r.y[<<i, j>>] = JacAction(jac_op, Basis(jac_op.nstates, j))[i]
                      /\ r.v = VZeros(jac_op.nstates)
C17_Witness ==
    /\ IsSome(jac_run)
    /\ Unwrap(jac_run).run.path = "default"
    /\ jac_op.kind = "closure"
    /\ jac_op.nstates = 2 /\ jac_op.nout = 2
    /\ jac_op.J[<<0, 1>>] # jac_op.J[<<1, 0>>]
    /\ Len(Unwrap(jac_run).run.probes) = 2
    /\ Unwrap(jac_run).run.y = jac_op.J
C17_WitnessColoring ==
    /\ IsSome(jac_run)
    /\ Unwrap(jac_run).run.path = "coloring"
    /\ Unwrap(jac_run).asked

\* C18: reset(y) sets scale to |y| * rtol + atol, iter to 0 and old_norm to
\* None; the first check after a reset finds no recorded norm, computes no
\* rate and returns Converged, Continue or MaximumIterations, never Diverged,
\* whatever was recorded before the reset.
C18_ResetClearsOldNorm ==
    /\ (IsSome(reset_call) /\ IsNone(call)) =>
           /\ scale = Some(F64Add[F64Mul[F64Abs[Unwrap(reset_call).y], rtol], atol])
           /\ iter = 0
           /\ old_norm = None
    /\ (IsSome(reset_call) /\ IsSome(call) /\ Unwrap(call).k = 0) =>
           /\ ~HadOldNorm
           /\ Unwrap(call).iter = 0
           /\ status \in {"Converged", "Continue", "MaximumIterations"}
\* a norm was recorded before the reset, and the first check after it goes on
C18_Witness ==
    /\ IsSome(reset_call) /\ Unwrap(reset_call).had_old_norm
    /\ IsSome(call) /\ Unwrap(call).k = 0
    /\ ~HadOldNorm
    /\ max_iter >= 2
    /\ status = "Continue"

\* the points are in the order of their times
Sorted(points) ==
    \A i, j \in 1..Len(points) : i < j => points[i].t <= points[j].t
\* v without its k-th element
Without(v, k) == SubSeq(v, 1, k - 1) \o SubSeq(v, k + 1, Len(v))

\* C19: after any sequence of push calls from the empty solution the points
\* are sorted by non-decreasing t; a push adds one point, keeps the points
\* already stored in their order, and places the new point after every stored
\* point with a time <= its own (so after all points with an equal time).
C19_PushKeepsSorted ==
    /\ Sorted(solution_points)
    /\ IsSome(push_last) =>
           LET c == Unwrap(push_last)
           IN  /\ Len(solution_points) = Len(c.before) + 1
               /\ \E k \in 1..Len(solution_points) :
                      /\ solution_points[k] = [state |-> c.state, t |-> c.t]
                      /\ Without(solution_points, k) = c.before
                      /\ \A i \in 1..(k - 1) : solution_points[i].t <= c.t
                      /\ \A i \in (k + 1)..Len(solution_points) : solution_points[i].t > c.t
\* the point pushed last has the time of a stored point with another state
\* and stands right after it, before a later point
C19_Witness ==
    /\ IsSome(push_last)
    /\ Len(solution_points) = 3
    /\ solution_points[2] = [state |-> Unwrap(push_last).state, t |-> Unwrap(push_last).t]
    /\ solution_points[1].t = solution_points[2].t
    /\ solution_points[1].state # solution_points[2].state
    /\ solution_points[3].t > solution_points[2].t
    /\ Unwrap(push_last).before = <<solution_points[1], solution_points[3]>>

\* C20: nstates, nout, nparams, statistics() and sparsity() called on &C
\* return what they return on C itself.
C20_RefSameAsOperator ==
    IsSome(ref_view) => Unwrap(ref_view).through_ref = Unwrap(ref_view).direct

\* C21: for every operator, also one with nout # nstates, call and jac_mul
\* return a vector of length nout, and jacobian and matrix return a matrix
\* with nout rows and nstates columns.
C21_AllocatedShapes ==
    IsSome(alloc_out) =>
        LET a == Unwrap(alloc_out)
        IN  /\ IsSome(a.ret)
            /\ IF a.method \in {"call", "jac_mul"}
               THEN Unwrap(a.ret).len = jac_op.nout
               ELSE /\ Unwrap(a.ret).nrows = jac_op.nout
                    /\ Unwrap(a.ret).ncols = jac_op.nstates

\* C22: in every state reached by reset and check_new_iteration calls (also
\* calls after a terminal status without a reset between), iter <= max_iter,
\* the subtraction max_iter - iter does not overflow, and once reset has been
\* called check_new_iteration does not panic.
C22_IterAtMostMaxIter ==
    /\ iter <= max_iter
    /\ status # "PanicSubOverflow"
    /\ reset_called => status \notin Panics

====
